---- MODULE Spec2Model ----
(***************************************************************************)
(* Package analytics dashboard: the fetch layer of utils.py                *)
(* (fetch_lifetime_downloads, fetch_pypi_stats, fetch_github_stats_api),   *)
(* the st.cache_data memoization around it, the Fetch Stats handler of     *)
(* Home.py with its metrics, and the parts of app.py that differ from them.*)
(*                                                                         *)
(* Time of day is counted in hours since an epoch day 0 (a star event's    *)
(* starred_at), calendar dates in days since that epoch, and the cache     *)
(* clock in seconds.                                                       *)
(***************************************************************************)
EXTENDS Integers, Sequences, FiniteSets, TLC

(***************************************************************************)
(* Bounds of the model.                                                    *)
(***************************************************************************)
\* The repository has at most MaxStars stargazers upstream.
MaxStars == 3

\* The callers of the cached functions make at most MaxCalls calls.
MaxCalls == 2

\* The download series has at most MaxRecords records.
MaxRecords == 15

\* pd.to_datetime(...).date() cuts a timestamp to its calendar day.
HoursPerDay == 24

(***************************************************************************)
(* Values.                                                                 *)
(***************************************************************************)
\* Python's None, and a value that is not None.
None == [some |-> FALSE]
Some(x) == [some |-> TRUE, v |-> x]

\* What requests.get gives: a response with a status and a body, or a raised
\* requests.RequestException (no response at all).
Http(status, val) == [kind |-> "http", status |-> status, json |-> TRUE, val |-> val]
NotJson(status) == [kind |-> "http", status |-> status, json |-> FALSE, val |-> <<>>]
NetErr == [kind |-> "neterr", status |-> 0, json |-> FALSE, val |-> <<>>]

RECURSIVE SumSeq(_)
SumSeq(s) == IF s = <<>> THEN 0 ELSE s[1] + SumSeq(Tail(s))

RECURSIVE Concat(_)
Concat(ss) == IF ss = <<>> THEN <<>> ELSE ss[1] \o Concat(Tail(ss))

SetMin(S) == CHOOSE x \in S : \A y \in S : x <= y
SetMax(S) == CHOOSE x \in S : \A y \in S : x >= y

(***************************************************************************)
(* Star normalization, utils.py 117-128.                                   *)
(***************************************************************************)
\* pd.to_datetime(star['starred_at']).date()
ToDate(ts) == ts \div HoursPerDay

\* The frame of line 118: one row {date, stars: 1} per star event.
EventRows(data) ==
    [i \in DOMAIN data |-> [date |-> ToDate(data[i].starred_at), stars |-> 1]]

ColumnMin(rows) == SetMin({rows[i].date : i \in DOMAIN rows})
ColumnMax(rows) == SetMax({rows[i].date : i \in DOMAIN rows})

\* A range that stops a day short of hi.
DateRange_Exclusive(lo, hi) == [i \in 1..(hi - lo) |-> lo + (i - 1)]

\* pd.date_range(lo, hi, freq='D').date
DateRange(lo, hi) == [i \in 1..(hi - lo + 1) |-> lo + (i - 1)]

\* groupby('date')['stars'].sum(): the dates that occur, each with its sum.
GroupSum(rows) ==
    [d \in {rows[i].date : i \in DOMAIN rows} |->
        SumSeq([i \in DOMAIN rows |-> IF rows[i].date = d THEN rows[i].stars ELSE 0])]

\* .reindex(index, fill_value=fill).reset_index(), columns ['date', 'stars']
Reindex(grouped, index, fill) ==
    [i \in DOMAIN index |->
        [date |-> index[i],
         stars |-> IF index[i] \in DOMAIN grouped THEN grouped[index[i]] ELSE fill]]

\* A running sum that leaves the row's own value out.
CumSum_Exclusive(s) == [i \in DOMAIN s |-> SumSeq(SubSeq(s, 1, i - 1))]

\* Series.cumsum()
CumSum(s) == [i \in DOMAIN s |-> SumSeq(SubSeq(s, 1, i))]

\* Series.diff(): NaN in the first place, s[i] - s[i-1] after it.
Diff(s) ==
    [i \in DOMAIN s |->
        IF i = 1 THEN [nan |-> TRUE, x |-> 0] ELSE [nan |-> FALSE, x |-> s[i] - s[i - 1]]]

\* fillna(0) in place of fillna(other).
FillNa_Zero(s, other) == [i \in DOMAIN s |-> IF s[i].nan THEN 0 ELSE s[i].x]

\* Series.fillna(other): every NaN replaced by other's value in the same row.
FillNa(s, other) == [i \in DOMAIN s |-> IF s[i].nan THEN other[i] ELSE s[i].x]

\* stars_df.to_dict('records') of lines 117-128 and 169.
StarsHistory(data) ==
    IF data = <<>> THEN <<>>
    ELSE LET rows == EventRows(data)
             index == DateRange(ColumnMin(rows), ColumnMax(rows))
             daily == Reindex(GroupSum(rows), index, 0)
             stars == [i \in DOMAIN daily |-> daily[i].stars]
             cumulative == CumSum(stars)
             change == FillNa(Diff(stars), stars)
         IN  [i \in DOMAIN daily |->
                [date |-> daily[i].date,
                 stars |-> daily[i].stars,
                 cumulative_stars |-> cumulative[i],
                 star_change |-> change[i]]]

(***************************************************************************)
(* State.                                                                  *)
(***************************************************************************)
VARIABLES
    \* the upstream services, as they answer now
    github,             \* api.github.com: the answer of each endpoint of the repository
    pypistats,          \* pypistats.org: the answer of /api/packages/{package}/overall
    warehouse,          \* BigQuery: whether queries run, and the download events held
    clock,              \* seconds since the epoch
    \* st.cache_data
    cache,              \* the stored entries, by function and argument tuple
    executions,         \* by function and argument tuple, the last run of the body
    call,               \* the function and argument tuple of the last call
    ncalls,             \* the calls made (by the handler: since the button was pressed)
    ret,                \* what the last call gave its caller
    \* the Fetch Stats handler of Home.py and the session
    h_pc,
    package,
    github_repo,
    granularity,
    lifetime_downloads,
    df_pypi,
    df_github,
    session_repo_data,  \* st.session_state.repo_data
    rendered,           \* the metrics section was rendered by the last action
    metrics,            \* the metrics it computed and showed
    \* one execution of fetch_github_stats_api (utils.py 82-176)
    gh_pc,              \* the next request of the body; "idle", "done"
    repo_name,
    repo_data,
    stars_data,
    page,
    stars_response,
    commits_data,
    contributors_data,
    releases_data,
    prs_data,
    gh_result,          \* the returned pair
    \* what the user is shown, what went out
    errors,             \* the st.error messages, by the function that showed them
    requests            \* the requests issued, in order

ghVars == <<gh_pc, repo_name, repo_data, stars_data, page, stars_response,
            commits_data, contributors_data, releases_data, prs_data, gh_result>>
worldVars == <<github, pypistats, warehouse, clock>>
cacheVars == <<cache, executions, call, ncalls, ret>>
handlerVars == <<h_pc, package, github_repo, granularity, lifetime_downloads,
                 df_pypi, df_github, session_repo_data, rendered, metrics>>
vars == <<worldVars, cacheVars, handlerVars, ghVars, errors, requests>>

SecondsPerDay == 86400
DaysPerWeek == 7

\* datetime.now().date()
Today == clock \div SecondsPerDay

(***************************************************************************)
(* api.github.com.                                                         *)
(***************************************************************************)
\* GET /repos/{repo_name}: the metadata names the repository asked for.
RepoResponse(name) ==
    IF github.repo.kind = "http" /\ github.repo.status = 200 /\ github.repo.json
    THEN Http(200, [github.repo.val EXCEPT !.full_name = name])
    ELSE github.repo

\* GET /repos/{repo_name}/stargazers?per_page=100&page=p: past the last page
\* of the listing the answer is an empty list.
StargazersResponse(p) ==
    IF p \in DOMAIN github.stargazers THEN github.stargazers[p] ELSE Http(200, <<>>)

(***************************************************************************)
(* fetch_github_stats_api, utils.py 82-176.                                *)
(***************************************************************************)
Request(endpoint, p) == [endpoint |-> endpoint, page |-> p]

\* except Exception (174-176): one message, the absent pair.
GhExcept ==
    /\ errors' = Append(errors, "fetch_github_stats_api")
    /\ gh_result' = [raised |-> FALSE, df |-> None, repo_data |-> None]
    /\ gh_pc' = "done"

\* The status test of lines 132, 136, 140, 144.
IsOk(r) == r.status = 200

\* response.json() if response.status_code == 200 else []
DataOrEmpty(r) == IF IsOk(r) THEN r.val ELSE <<>>

\* response.json() raises on a body that is not JSON.
JsonRaises(r) == ~r.json

\* A test that takes only the 4xx statuses for failures.
RepoFailed_ClientOnly(r) == r.status >= 400 /\ r.status < 500

\* The test of line 97.
RepoFailed(r) == r.status # 200

\* An auxiliary request that raises on every status but 200.
AuxAborts_AnyFailure(r) == r.kind = "neterr" \/ ~IsOk(r) \/ JsonRaises(r)

\* A request of lines 131-144 ends in the except clause: requests.get raised,
\* or the body of a 200 is not JSON.
AuxAborts(r) == r.kind = "neterr" \/ (IsOk(r) /\ JsonRaises(r))

\* 95-101
GetRepo ==
    /\ gh_pc = "repo"
    /\ requests' = Append(requests, Request("repo", 0))
    /\ LET r == RepoResponse(repo_name) IN
       IF r.kind = "neterr" THEN
            /\ GhExcept
            /\ UNCHANGED <<repo_data, stars_data, page>>
       ELSE IF RepoFailed(r) THEN
            \* 98-99; a body that is not JSON raises in 98 and ends in 174-176
            /\ GhExcept
            /\ UNCHANGED <<repo_data, stars_data, page>>
       ELSE IF JsonRaises(r) THEN
            /\ GhExcept
            /\ UNCHANGED <<repo_data, stars_data, page>>
       ELSE /\ repo_data' = r.val
            /\ stars_data' = <<>>
            /\ page' = 1
            /\ gh_pc' = "stars"
            /\ UNCHANGED <<errors, gh_result>>
    /\ UNCHANGED <<worldVars, cacheVars, handlerVars, repo_name, stars_response, commits_data,
                   contributors_data, releases_data, prs_data>>

\* A loop test that looks at the status alone.
StarsLoopEnds_StatusOnly(r) == r.status # 200

\* The test of line 112 that leaves the loop.
StarsLoopEnds(r) == r.status # 200 \/ r.val = <<>>

\* A loop that raises on every status but 200 (raise_for_status).
StarsAborts_AnyFailure(r) == r.kind = "neterr" \/ r.status # 200 \/ JsonRaises(r)

\* A turn of the loop ends in the except clause: requests.get raised, or
\* line 112 parses a 200 whose body is not JSON.
StarsAborts(r) == r.kind = "neterr" \/ (r.status = 200 /\ JsonRaises(r))

\* A loop that asks for the page it has just consumed once more.
NextPage_Same(p) == p

\* page += 1 of line 115.
NextPage(p) == p + 1

\* 106-115, one turn of the loop
GetStargazers ==
    /\ gh_pc = "stars"
    /\ requests' = Append(requests, Request("stargazers", page))
    /\ LET r == StargazersResponse(page) IN
       IF StarsAborts(r) THEN
            /\ stars_response' = IF r.kind = "neterr" THEN stars_response ELSE r
            /\ GhExcept
            /\ UNCHANGED <<stars_data, page>>
       ELSE IF StarsLoopEnds(r) THEN
            /\ stars_response' = r
            /\ gh_pc' = "commits"
            /\ UNCHANGED <<stars_data, page, errors, gh_result>>
       ELSE /\ stars_response' = r
            /\ stars_data' = stars_data \o r.val
            /\ page' = NextPage(page)
            /\ UNCHANGED <<gh_pc, errors, gh_result>>
    /\ UNCHANGED <<worldVars, cacheVars, handlerVars, repo_name, repo_data, commits_data,
                   contributors_data, releases_data, prs_data>>

\* 131-132
GetCommits ==
    /\ gh_pc = "commits"
    /\ requests' = Append(requests, Request("commit_activity", 0))
    /\ LET r == github.commits IN
       IF AuxAborts(r) THEN
            /\ GhExcept
            /\ UNCHANGED commits_data
       ELSE /\ commits_data' = DataOrEmpty(r)
            /\ gh_pc' = "contributors"
            /\ UNCHANGED <<errors, gh_result>>
    /\ UNCHANGED <<worldVars, cacheVars, handlerVars, repo_name, repo_data, stars_data, page,
                   stars_response, contributors_data, releases_data, prs_data>>

\* 135-136
GetContributors ==
    /\ gh_pc = "contributors"
    /\ requests' = Append(requests, Request("contributors", 0))
    /\ LET r == github.contributors IN
       IF AuxAborts(r) THEN
            /\ GhExcept
            /\ UNCHANGED contributors_data
       ELSE /\ contributors_data' = DataOrEmpty(r)
            /\ gh_pc' = "releases"
            /\ UNCHANGED <<errors, gh_result>>
    /\ UNCHANGED <<worldVars, cacheVars, handlerVars, repo_name, repo_data, stars_data, page,
                   stars_response, commits_data, releases_data, prs_data>>

\* 139-140
GetReleases ==
    /\ gh_pc = "releases"
    /\ requests' = Append(requests, Request("releases", 0))
    /\ LET r == github.releases IN
       IF AuxAborts(r) THEN
            /\ GhExcept
            /\ UNCHANGED releases_data
       ELSE /\ releases_data' = DataOrEmpty(r)
            /\ gh_pc' = "pulls"
            /\ UNCHANGED <<errors, gh_result>>
    /\ UNCHANGED <<worldVars, cacheVars, handlerVars, repo_name, repo_data, stars_data, page,
                   stars_response, commits_data, contributors_data, prs_data>>

\* sum(week['total'] for week in commits_data) if commits_data else 0
TotalCommits(commits) ==
    IF commits # <<>> THEN SumSeq([i \in DOMAIN commits |-> commits[i].total]) ELSE 0

\* pd.date_range(end=datetime.now(), periods=n, freq='W'): the n Sundays up
\* to now, oldest first (day 0 of the epoch is a Sunday).
WeeklyDates(n) ==
    LET last == Today - (Today % DaysPerWeek)
    IN  [i \in 1..n |-> last - DaysPerWeek * (n - i)]

\* A frame whose counts are those of its weeks: one star and one fork fewer
\* for every week back.
BuildFrame_Weekly(meta, commits) ==
    LET dates == IF commits # <<>> THEN WeeklyDates(Len(commits)) ELSE <<>>
        back(i) == Len(dates) - i
    IN  [i \in DOMAIN dates |->
            [date |-> dates[i],
             stars |-> meta.stargazers_count - back(i),
             forks |-> meta.forks_count - back(i),
             open_issues |-> meta.open_issues_count,
             watchers |-> meta.watchers_count,
             weekly_commits |-> commits[i].total]]

\* 150-158: one row per commit week, the repository's counts in every row.
BuildFrame(meta, commits) ==
    LET dates == IF commits # <<>> THEN WeeklyDates(Len(commits)) ELSE <<>>
    IN  [i \in DOMAIN dates |->
            [date |-> dates[i],
             stars |-> meta.stargazers_count,
             forks |-> meta.forks_count,
             open_issues |-> meta.open_issues_count,
             watchers |-> meta.watchers_count,
             weekly_commits |-> commits[i].total]]

\* 161-170: repo_data.update({...})
BuildSnapshot(meta, stars, commits, contributors, releases, prs) ==
    [full_name |-> meta.full_name,
     stargazers_count |-> meta.stargazers_count,
     forks_count |-> meta.forks_count,
     open_issues_count |-> meta.open_issues_count,
     watchers_count |-> meta.watchers_count,
     total_commits |-> TotalCommits(commits),
     total_contributors |-> Len(contributors),
     total_releases |-> Len(releases),
     commits_data |-> commits,
     contributors_data |-> contributors,
     releases_data |-> releases,
     prs_data |-> prs,
     stars_history |-> StarsHistory(stars)]

\* 143-172
GetPulls ==
    /\ gh_pc = "pulls"
    /\ requests' = Append(requests, Request("pulls", 0))
    /\ LET r == github.pulls IN
       IF AuxAborts(r) THEN
            /\ GhExcept
            /\ UNCHANGED <<prs_data, repo_data>>
       ELSE /\ prs_data' = DataOrEmpty(r)
            /\ repo_data' = BuildSnapshot(repo_data, stars_data, commits_data,
                                          contributors_data, releases_data, prs_data')
            /\ gh_result' = [raised |-> FALSE,
                             df |-> Some(BuildFrame(repo_data, commits_data)),
                             repo_data |-> Some(repo_data')]
            /\ gh_pc' = "done"
            /\ UNCHANGED errors
    /\ UNCHANGED <<worldVars, cacheVars, handlerVars, repo_name, stars_data, page, stars_response,
                   commits_data, contributors_data, releases_data>>

GitHubStep ==
    \/ GetRepo
    \/ GetStargazers
    \/ GetCommits
    \/ GetContributors
    \/ GetReleases
    \/ GetPulls

(***************************************************************************)
(* fetch_lifetime_downloads, utils.py 64-77.                               *)
(***************************************************************************)
\* What the body of a fetch function ends with: a returned value or a raised
\* exception, the st.error messages shown and the requests made on the way.
Returns(value, messages, sent) ==
    [raised |-> FALSE, value |-> value, messages |-> messages, sent |-> sent]
RaisesError(messages, sent) ==
    [raised |-> TRUE, value |-> None, messages |-> messages, sent |-> sent]

\* response.raise_for_status() raises for the 4xx and 5xx statuses.
RaiseForStatus_ServerOnly(status) == 500 <= status /\ status < 600
RaiseForStatus(status) == 400 <= status /\ status < 600

\* sum(item['downloads'] for item in data['data'])
TotalDownloads(data) == SumSeq([i \in DOMAIN data |-> data[i].downloads])

\* A body that asks the endpoint a second time when the first answer fails.
LifetimeDownloads_Retried(package_name) ==
    LET r == pypistats
        once == <<Request("overall", 0)>>
        twice == <<Request("overall", 0), Request("overall", 0)>>
    IN  IF r.kind = "neterr" \/ RaiseForStatus(r.status) \/ ~r.json
        THEN Returns(0, <<"fetch_lifetime_downloads">>, twice)
        ELSE IF "data" \notin DOMAIN r.val THEN RaisesError(<<>>, once)
        ELSE Returns(TotalDownloads(r.val.data), <<>>, once)

\* 65-77. A body that is not JSON raises requests' JSONDecodeError, which is
\* a RequestException; a JSON body without 'data' raises KeyError, which the
\* except clause does not catch.
LifetimeDownloads(package_name) ==
    LET r == pypistats
        sent == <<Request("overall", 0)>>
        failed == Returns(0, <<"fetch_lifetime_downloads">>, sent)
    IN  IF r.kind = "neterr" THEN failed
        ELSE IF RaiseForStatus(r.status) THEN failed
        ELSE IF ~r.json THEN failed
        ELSE IF "data" \notin DOMAIN r.val THEN RaisesError(<<>>, sent)
        ELSE Returns(TotalDownloads(r.val.data), <<>>, sent)

(***************************************************************************)
(* fetch_pypi_stats, utils.py 27-61, and the warehouse that runs its query.*)
(***************************************************************************)
MinutesPerHour == 60
MinutesPerDay == 1440

\* The days (since the epoch, a Sunday and a 1 January) that start a month.
MonthStarts == {0, 31, 59, 90}

\* 31-36: the grouping expression and the displayed one of a granularity.
TimeExpressions(gran) ==
    CASE gran = "hourly" -> <<"DATETIME_TRUNC(timestamp, HOUR)", "DATETIME(timestamp)">>
      [] gran = "daily" -> <<"DATE(timestamp)", "DATE(timestamp)">>
      [] gran = "weekly" ->
            <<"DATE_TRUNC(DATE(timestamp), WEEK)", "DATE_TRUNC(DATE(timestamp), WEEK)">>
      [] gran = "monthly" ->
            <<"DATE_TRUNC(DATE(timestamp), MONTH)", "DATE_TRUNC(DATE(timestamp), MONTH)">>
      [] OTHER -> <<"DATE(timestamp)", "DATE(timestamp)">>

\* 38-59: the query text's select expression and its bound parameters; the
\* text groups and orders by the select alias, and time_group is not in it.
BuildQuery(package_name, start_date, end_date, gran) ==
    [select_time |-> TimeExpressions(gran)[2],
     group_by |-> "date",
     order_by |-> "date",
     package_name |-> package_name,
     start_date |-> start_date,
     end_date |-> end_date]

\* app.py 31-42: the same pair by if/elif, the last branch taking whatever is
\* not hourly, daily or weekly.
AppTimeExpressions(gran) ==
    IF gran = "hourly" THEN <<"DATETIME_TRUNC(timestamp, HOUR)", "DATETIME(timestamp)">>
    ELSE IF gran = "daily" THEN <<"DATE(timestamp)", "DATE(timestamp)">>
    ELSE IF gran = "weekly"
    THEN <<"DATE_TRUNC(DATE(timestamp), WEEK)", "DATE_TRUNC(DATE(timestamp), WEEK)">>
    ELSE <<"DATE_TRUNC(DATE(timestamp), MONTH)", "DATE_TRUNC(DATE(timestamp), MONTH)">>

\* app.py 44-65
AppBuildQuery(package_name, start_date, end_date, gran) ==
    [select_time |-> AppTimeExpressions(gran)[2],
     group_by |-> "date",
     order_by |-> "date",
     package_name |-> package_name,
     start_date |-> start_date,
     end_date |-> end_date]

\* GROUP BY date, ORDER BY date: the alias of the select list stands for its
\* expression.
Resolve(q, name) == IF name = "date" THEN q.select_time ELSE name

\* The warehouse's value of an expression for a timestamp in minutes: a day
\* for the DATE expressions, a minute for the DATETIME ones.
Evaluate(expr, ts) ==
    LET day == ts \div MinutesPerDay IN
    CASE expr = "DATE(timestamp)" -> day
      [] expr = "DATETIME(timestamp)" -> ts
      [] expr = "DATETIME_TRUNC(timestamp, HOUR)" -> ts - (ts % MinutesPerHour)
      [] expr = "DATE_TRUNC(DATE(timestamp), WEEK)" -> day - (day % DaysPerWeek)
      [] expr = "DATE_TRUNC(DATE(timestamp), MONTH)" ->
            SetMax({m \in MonthStarts : m <= day})

RECURSIVE Ascending(_)
Ascending(S) ==
    IF S = {} THEN <<>> ELSE <<SetMin(S)>> \o Ascending(S \ {SetMin(S)})

\* SELECT ... AS date, COUNT(*) AS downloads ... WHERE ... GROUP BY date
\* ORDER BY date, over the events the warehouse holds.
RunQuery(q, events) ==
    LET hits == {i \in DOMAIN events :
                    /\ events[i].project = q.package_name
                    /\ q.start_date <= events[i].timestamp \div MinutesPerDay
                    /\ events[i].timestamp \div MinutesPerDay <= q.end_date}
        key(i) == Evaluate(Resolve(q, q.group_by), events[i].timestamp)
        dates == Ascending({key(i) : i \in hits})
    IN  [n \in DOMAIN dates |->
            [date |-> dates[n],
             downloads |-> Cardinality({i \in hits : key(i) = dates[n]})]]

\* 28-61: the query raises when the warehouse fails it.
QueryRequest(q) == [endpoint |-> "warehouse", page |-> 0, query |-> q]

PypiStats(package_name, start_date, end_date, gran) ==
    LET q == BuildQuery(package_name, start_date, end_date, gran)
        sent == <<QueryRequest(q)>>
    IN  IF ~warehouse.ok THEN RaisesError(<<>>, sent)
        ELSE Returns(RunQuery(q, warehouse.events), <<>>, sent)

\* app.py 28-67
AppPypiStats(package_name, start_date, end_date, gran) ==
    LET q == AppBuildQuery(package_name, start_date, end_date, gran)
        sent == <<QueryRequest(q)>>
    IN  IF ~warehouse.ok THEN RaisesError(<<>>, sent)
        ELSE Returns(RunQuery(q, warehouse.events), <<>>, sent)

(***************************************************************************)
(* st.cache_data(ttl=...), utils.py 26, 63, 81.                            *)
(***************************************************************************)
TtlPypiStats == 60 * 60 * 24
TtlLifetimeDownloads_Hour == 60 * 60
TtlLifetimeDownloads == 60 * 60 * 24
TtlGitHubStats_Day == 60 * 60 * 24
TtlGitHubStats == 60 * 60

Ttl(fn) ==
    CASE fn \in {"fetch_pypi_stats", "app.fetch_pypi_stats"} -> TtlPypiStats
      [] fn = "fetch_lifetime_downloads" -> TtlLifetimeDownloads
      [] fn = "fetch_github_stats_api" -> TtlGitHubStats

\* A key that leaves out every argument but the first.
CacheKey_FirstArgument(fn, args) == [fn |-> fn, args |-> <<args[1]>>]

\* The entry of a call: the function and its full argument tuple.
CacheKey(fn, args) == [fn |-> fn, args |-> args]

\* The entry of key k is there and has not expired.
Fresh(k) == k \in DOMAIN cache /\ clock - cache[k].stored_at < Ttl(k.fn)

\* The function f with x mapped to y.
Put(f, x, y) == [z \in DOMAIN f \cup {x} |-> IF z = x THEN y ELSE f[z]]

\* The call of fn with the arguments args, as the caller makes it.
Call(fn, args) == [fn |-> fn, args |-> args]

\* A call that finds a fresh entry returns its value; the body does not run.
CacheHit(fn, args) ==
    LET k == CacheKey(fn, args) IN
    /\ Fresh(k)
    /\ call' = Call(fn, args)
    /\ ncalls' = ncalls + 1
    /\ ret' = [call |-> Call(fn, args), executed |-> FALSE, raised |-> FALSE,
               value |-> cache[k].value]
    /\ UNCHANGED <<cache, executions, errors, requests>>

\* A call that finds none runs the body: a returned value is stored with the
\* time, a raised exception goes to the caller and nothing is stored. The
\* caller that catches it shows the messages of caught. executions keeps the
\* last run of the body for each call.
CacheMiss(fn, args, outcome, caught) ==
    LET k == CacheKey(fn, args) IN
    /\ ~Fresh(k)
    /\ call' = Call(fn, args)
    /\ ncalls' = ncalls + 1
    /\ executions' = Put(executions, Call(fn, args),
            [at |-> clock, raised |-> outcome.raised, value |-> outcome.value])
    /\ cache' = IF outcome.raised THEN cache
                ELSE Put(cache, k, [value |-> outcome.value, stored_at |-> clock])
    /\ ret' = [call |-> Call(fn, args), executed |-> TRUE, raised |-> outcome.raised,
               value |-> outcome.value]
    /\ errors' = (errors \o outcome.messages) \o caught
    /\ requests' = requests \o outcome.sent

\* A call of a function whose body is one request.
CachedCall(fn, args, outcome) ==
    CacheHit(fn, args) \/ CacheMiss(fn, args, outcome, <<>>)

\* A call of fetch_github_stats_api that finds no fresh entry enters the body.
GitHubMiss(args) ==
    /\ ~Fresh(CacheKey("fetch_github_stats_api", args))
    /\ gh_pc = "idle"
    /\ call' = Call("fetch_github_stats_api", args)
    /\ ncalls' = ncalls + 1
    /\ gh_pc' = "repo"
    /\ repo_name' = args[1]
    /\ UNCHANGED <<cache, executions, ret, errors, requests, repo_data, stars_data,
                   page, stars_response, commits_data, contributors_data,
                   releases_data, prs_data, gh_result>>

\* The body has returned: the pair is stored and given to the caller.
GitHubStore ==
    /\ gh_pc = "done"
    /\ gh_pc' = "idle"
    /\ LET value == [df |-> gh_result.df, repo_data |-> gh_result.repo_data]
           k == CacheKey(call.fn, call.args)
       IN
        /\ executions' = Put(executions, call,
                [at |-> clock, raised |-> gh_result.raised, value |-> value])
        /\ cache' = IF gh_result.raised THEN cache
                    ELSE Put(cache, k, [value |-> value, stored_at |-> clock])
        /\ ret' = [call |-> call, executed |-> TRUE, raised |-> gh_result.raised,
                   value |-> value]
    /\ UNCHANGED <<call, ncalls, errors, requests, repo_name, repo_data, stars_data,
                   page, stars_response, commits_data, contributors_data,
                   releases_data, prs_data, gh_result>>

(***************************************************************************)
(* The metrics of the Fetch Stats handler, Home.py 91-125 and 132-193.     *)
(* A number is a fraction num/den or NaN: the mean of integers is not an   *)
(* integer, and pandas gives NaN for the mean or the maximum of nothing.   *)
(***************************************************************************)
NaN == [nan |-> TRUE, num |-> 0, den |-> 1]
Number(x) == [nan |-> FALSE, num |-> x, den |-> 1]

\* a - b of two floats: NaN when either is.
Minus(a, b) ==
    IF a.nan \/ b.nan THEN NaN
    ELSE [nan |-> FALSE, num |-> a.num * b.den - b.num * a.den, den |-> a.den * b.den]

\* df['downloads'], df['stars']: a column of a frame.
Column(df, name) == [i \in DOMAIN df |-> df[i][name]]

\* A mean that counts 7 places whatever the length.
Mean_OverSeven(s) ==
    IF s = <<>> THEN NaN ELSE [nan |-> FALSE, num |-> SumSeq(s), den |-> DaysPerWeek]

\* Series.mean()
Mean(s) == IF s = <<>> THEN NaN ELSE [nan |-> FALSE, num |-> SumSeq(s), den |-> Len(s)]

\* Series.max()
Max(s) == IF s = <<>> THEN NaN ELSE Number(SetMax({s[i] : i \in DOMAIN s}))

\* Series.sum()
Sum(s) == SumSeq(s)

\* df.tail(n), df.head(n): the last, the first n rows, all of them when there
\* are fewer.
PandasTail(df, n) == IF Len(df) <= n THEN df ELSE SubSeq(df, Len(df) - n + 1, Len(df))
PandasHead(df, n) == IF Len(df) <= n THEN df ELSE SubSeq(df, 1, n)

\* Series.idxmax(): the first place of the maximum.
IdxMax_Last(s) == SetMax({i \in DOMAIN s : \A j \in DOMAIN s : s[j] <= s[i]})
IdxMax(s) == SetMin({i \in DOMAIN s : \A j \in DOMAIN s : s[j] <= s[i]})

\* 92, 93: the last and the second-to-last row's downloads, the 0 of the
\* stand-in row when there is none.
Yesterday_Last(df) == IF Len(df) > 1 THEN df[Len(df)].downloads ELSE 0
TodayDownloads(df) == IF df # <<>> THEN df[Len(df)].downloads ELSE 0
YesterdayDownloads(df) == IF Len(df) > 1 THEN df[Len(df) - 1].downloads ELSE 0

\* 100, 101
AvgLastWeek(df) == Mean(Column(PandasTail(df, 7), "downloads"))
AvgPreviousWeek(df) ==
    IF Len(df) >= 14
    THEN Mean(Column(PandasHead(PandasTail(df, 14), 7), "downloads"))
    ELSE Number(0)

\* 105: df_pypi[:-1]['downloads'].max() if len(df_pypi) > 1 else 0
PreviousPeak_Whole(df) == IF Len(df) > 1 THEN Max(Column(df, "downloads")) ELSE Number(0)
PreviousPeak(df) ==
    IF Len(df) > 1 THEN Max(Column(SubSeq(df, 1, Len(df) - 1), "downloads"))
    ELSE Number(0)

\* 119-123: the rows of the last week and of the week before it.
LastWeekRows(stars_df, current_date) ==
    SelectSeq(stars_df, LAMBDA row : row.date >= current_date - 7)
PreviousWeekRows(stars_df, current_date) ==
    SelectSeq(stars_df, LAMBDA row :
        row.date >= current_date - 14 /\ row.date < current_date - 7)

\* 92-106: the download metrics.
DownloadMetrics(lifetime, df) ==
    LET today == TodayDownloads(df)
        yesterday == YesterdayDownloads(df)
        avg_last_week == AvgLastWeek(df)
        avg_previous_week == AvgPreviousWeek(df)
        previous_peak == PreviousPeak(df)
    IN  [total_downloads |-> lifetime,
         today |-> today,
         yesterday |-> yesterday,
         avg_downloads |-> Mean(Column(df, "downloads")),
         max_downloads |-> Max(Column(df, "downloads")),
         daily_change |-> today - yesterday,
         avg_last_week |-> avg_last_week,
         avg_previous_week |-> avg_previous_week,
         avg_change |-> Minus(avg_last_week, avg_previous_week),
         current_peak |-> today,
         previous_peak |-> previous_peak,
         peak_change |-> Minus(Number(today), previous_peak)]

\* 115-125 and 182-187: the star metrics; "N/A" is the date of no row.
StarMetrics(stars_df, current_date) ==
    LET stars == Column(stars_df, "stars")
        last_week_stars ==
            IF stars_df # <<>>
            THEN Sum(Column(LastWeekRows(stars_df, current_date), "stars")) ELSE 0
        previous_week_stars ==
            IF stars_df # <<>>
            THEN Sum(Column(PreviousWeekRows(stars_df, current_date), "stars")) ELSE 0
    IN  [last_week_stars |-> last_week_stars,
         previous_week_stars |-> previous_week_stars,
         week_stars_change |-> last_week_stars - previous_week_stars,
         avg_stars |-> IF stars_df # <<>> THEN Mean(stars) ELSE Number(0),
         peak_stars_day |-> IF stars_df # <<>> THEN Max(stars) ELSE Number(0),
         peak_stars_date |->
            IF stars_df # <<>> THEN Some(stars_df[IdxMax(stars)].date) ELSE None]

\* round() of a fraction to the nearest integer, a tie to the even one, as
\* the .0f of a format does.
RoundHalfEven(num, den) ==
    LET q == num \div den
        r == num - q * den
    IN  IF 2 * r < den THEN q
        ELSE IF 2 * r > den THEN q + 1
        ELSE IF q % 2 = 0 THEN q ELSE q + 1

\* f"{x:,.0f}": the text of NaN is 'nan', that of a number its rounded digits.
Format(x) ==
    IF x.nan THEN [text |-> "nan", digits |-> 0]
    ELSE [text |-> "digits", digits |-> RoundHalfEven(x.num, x.den)]

\* 109-113: the change against the frame's row of 7 weeks ago.
WeekChange(count, df, name) == IF Len(df) >= 7 THEN count - df[Len(df) - 6][name] ELSE 0

\* 91-193: what the metrics section computes, and the texts of its first row.
Metrics(lifetime, pypi, frame, snapshot, current_date) ==
    LET d == DownloadMetrics(lifetime, pypi) IN
    [downloads |-> d,
     stars |-> StarMetrics(snapshot.stars_history, current_date),
     stars_change |-> WeekChange(snapshot.stargazers_count, frame, "stars"),
     forks_change |-> WeekChange(snapshot.forks_count, frame, "forks"),
     shown |-> [total_downloads |-> Format(Number(d.total_downloads)),
                today |-> Format(Number(d.today)),
                daily_change |-> Format(Number(d.daily_change)),
                avg_last_week |-> Format(d.avg_last_week),
                avg_change |-> Format(d.avg_change),
                max_downloads |-> Format(d.max_downloads),
                peak_change |-> Format(d.peak_change)]]

\* app.py 331: the mean of the first 7 of the last 14 rows, whatever the
\* length of the frame.
AppAvgPreviousWeek(df) == Mean(Column(PandasHead(PandasTail(df, 14), 7), "downloads"))

\* app.py 320-337: the download metrics of app.py's handler.
AppDownloadMetrics(lifetime, df) ==
    LET d == DownloadMetrics(lifetime, df)
        avg_previous_week == AppAvgPreviousWeek(df)
    IN  [d EXCEPT !.avg_previous_week = avg_previous_week,
                  !.avg_change = Minus(d.avg_last_week, avg_previous_week)]

(***************************************************************************)
(* The callers of the cached functions: the Fetch Stats handler of         *)
(* Home.py 59-74 and 287-288, and the Compare page.                        *)
(***************************************************************************)
\* Home.py 47-48, the first preset: the last 7 days up to today.
PresetDays == 7
EndDate == Today
StartDate == EndDate - PresetDays

ghLocals == <<repo_name, repo_data, stars_data, page, stars_response, commits_data,
              contributors_data, releases_data, prs_data, gh_result>>

\* Home.py 59: the button is pressed with the sidebar's values.
Click(packages, repos, grans) ==
    /\ h_pc \in {"idle", "done"}
    /\ gh_pc = "idle"
    /\ package' \in packages
    /\ github_repo' \in repos
    /\ granularity' \in grans
    /\ h_pc' = "lifetime"
    /\ rendered' = FALSE
    /\ metrics' = None
    /\ errors' = <<>>
    /\ requests' = <<>>
    /\ ncalls' = 0
    /\ UNCHANGED <<worldVars, cache, executions, call, ret, ghVars,
                   lifetime_downloads, df_pypi, df_github, session_repo_data>>

\* Home.py 287-288: except Exception of the handler shows one message.
Caught(outcome) == IF outcome.raised THEN <<"Fetch Stats">> ELSE <<>>

\* Home.py 63
HandlerLifetime ==
    /\ h_pc = "lifetime"
    /\ LET k == CacheKey("fetch_lifetime_downloads", <<package>>)
           outcome == LifetimeDownloads(package)
       IN  \/ /\ CacheHit("fetch_lifetime_downloads", <<package>>)
              /\ lifetime_downloads' = cache[k].value
              /\ h_pc' = "pypi"
           \/ /\ CacheMiss("fetch_lifetime_downloads", <<package>>, outcome,
                           Caught(outcome))
              /\ IF outcome.raised
                 THEN h_pc' = "done" /\ UNCHANGED lifetime_downloads
                 ELSE h_pc' = "pypi" /\ lifetime_downloads' = outcome.value
    /\ UNCHANGED <<worldVars, ghVars, package, github_repo, granularity, df_pypi,
                   df_github, session_repo_data, rendered, metrics>>

\* Home.py 66
HandlerPypi ==
    /\ h_pc = "pypi"
    /\ LET args == <<package, StartDate, EndDate, granularity>>
           k == CacheKey("fetch_pypi_stats", args)
           outcome == PypiStats(package, StartDate, EndDate, granularity)
       IN  \/ /\ CacheHit("fetch_pypi_stats", args)
              /\ df_pypi' = Some(cache[k].value)
              /\ h_pc' = "github"
           \/ /\ CacheMiss("fetch_pypi_stats", args, outcome, Caught(outcome))
              /\ IF outcome.raised
                 THEN h_pc' = "done" /\ UNCHANGED df_pypi
                 ELSE h_pc' = "github" /\ df_pypi' = Some(outcome.value)
    /\ UNCHANGED <<worldVars, ghVars, package, github_repo, granularity,
                   lifetime_downloads, df_github, session_repo_data, rendered, metrics>>

\* A handler that keeps the session's snapshot when the fetch gave none.
SessionRepoData_KeepLast(held, returned) == IF returned = None THEN held ELSE returned

\* Home.py 72: st.session_state.repo_data = repo_data
SessionRepoData(held, returned) == returned

\* Home.py 294-320: the releases of the session's snapshot, or the note that
\* there are none.
ReleaseSection(session) ==
    IF session # None /\ session.v.releases_data # <<>>
    THEN [found |-> TRUE, releases |-> session.v.releases_data]
    ELSE [found |-> FALSE, releases |-> <<>>]

\* Home.py 72-74: the snapshot goes to the session, and the metrics are
\* rendered when both frames are there.
HandlerStore(pair) ==
    /\ df_github' = pair.df
    /\ session_repo_data' = SessionRepoData(session_repo_data, pair.repo_data)
    /\ rendered' = (df_pypi # None /\ pair.df # None)
    /\ metrics' = IF df_pypi # None /\ pair.df # None
                  THEN Some(Metrics(lifetime_downloads, df_pypi.v, pair.df.v,
                                    pair.repo_data.v, Today))
                  ELSE None
    /\ h_pc' = "done"

\* Home.py 69, the call: a fresh entry is returned, or the body is entered.
HandlerGitHub ==
    /\ h_pc = "github"
    /\ LET k == CacheKey("fetch_github_stats_api", <<github_repo>>) IN
        \/ /\ CacheHit("fetch_github_stats_api", <<github_repo>>)
           /\ HandlerStore(cache[k].value)
           /\ UNCHANGED ghVars
        \/ /\ GitHubMiss(<<github_repo>>)
           /\ h_pc' = "in_github"
           /\ UNCHANGED <<df_github, session_repo_data, rendered, metrics>>
    /\ UNCHANGED <<worldVars, package, github_repo, granularity, lifetime_downloads,
                   df_pypi>>

\* Home.py 69-74, the return of the body.
HandlerGitHubReturns ==
    /\ h_pc = "in_github"
    /\ GitHubStore
    /\ HandlerStore([df |-> gh_result.df, repo_data |-> gh_result.repo_data])
    /\ UNCHANGED <<worldVars, package, github_repo, granularity, lifetime_downloads,
                   df_pypi>>

\* app.py 297-337: the same return in app.py's handler, as far as its download
\* metrics.
AppHandlerGitHubReturns ==
    /\ h_pc = "app_in_github"
    /\ GitHubStore
    /\ df_github' = gh_result.df
    /\ session_repo_data' = gh_result.repo_data
    /\ rendered' = (df_pypi # None /\ gh_result.df # None)
    /\ metrics' = IF df_pypi # None /\ gh_result.df # None
                  THEN Some([downloads |-> AppDownloadMetrics(lifetime_downloads, df_pypi.v)])
                  ELSE None
    /\ h_pc' = "app_done"
    /\ UNCHANGED <<worldVars, package, github_repo, granularity, lifetime_downloads,
                   df_pypi>>

\* A call of fetch_lifetime_downloads by any caller (Compare.py 81).
CallLifetimeDownloads(packages) ==
    /\ h_pc = "idle"
    /\ gh_pc = "idle"
    /\ \E p \in packages :
        CachedCall("fetch_lifetime_downloads", <<p>>, LifetimeDownloads(p))
    /\ UNCHANGED <<worldVars, handlerVars, ghVars>>

\* A call of fetch_pypi_stats by any caller (Compare.py 80).
CallPypiStats(tuples) ==
    /\ h_pc = "idle"
    /\ gh_pc = "idle"
    /\ \E a \in tuples :
        CachedCall("fetch_pypi_stats", a, PypiStats(a[1], a[2], a[3], a[4]))
    /\ UNCHANGED <<worldVars, handlerVars, ghVars>>

\* A call of app.py's fetch_pypi_stats (app.py 294).
CallAppPypiStats(tuples) ==
    /\ h_pc = "idle"
    /\ gh_pc = "idle"
    /\ \E a \in tuples :
        CachedCall("app.fetch_pypi_stats", a, AppPypiStats(a[1], a[2], a[3], a[4]))
    /\ UNCHANGED <<worldVars, handlerVars, ghVars>>

\* A call of fetch_github_stats_api by any caller (Compare.py 101).
CallGitHubStats(repos) ==
    /\ h_pc = "idle"
    /\ gh_pc = "idle"
    /\ \E r \in repos :
        \/ CacheHit("fetch_github_stats_api", <<r>>) /\ UNCHANGED ghVars
        \/ GitHubMiss(<<r>>)
    /\ UNCHANGED <<worldVars, handlerVars>>

\* Its return to that caller.
GitHubStatsReturns ==
    /\ h_pc = "idle"
    /\ GitHubStore
    /\ UNCHANGED <<worldVars, handlerVars>>

(***************************************************************************)
(* The upstream answers the executions are run against.                    *)
(***************************************************************************)
\* starred_at of a star: hour 5 and hour 23 of day 0, hour 6 of day 1,
\* hour 10 of day 5.
StarStamps == {5, 23, 30, 130}
Stars == {[starred_at |-> t] : t \in StarStamps}

\* The pages of exactly k stars.
DataPages(k) == {Http(200, p) : p \in [1..k -> Stars]}

\* A page that is not a non-empty list: an empty list, a refusal (rate limit),
\* a gateway's error page, a 200 whose body is cut short, no answer at all.
EndPages == {Http(200, <<>>), Http(403, <<>>), NotJson(502), NotJson(200), NetErr}

\* The listings of at most n stars in pages, with at most one page of
\* EndPages among them when gap is TRUE.
RECURSIVE Listings(_, _)
Listings(n, gap) ==
    LET after(k) == Listings(n - k, gap)
        whole == Listings(n, FALSE)
    IN  {<<>>}
        \cup UNION {LET rests == after(k)
                    IN  {<<p>> \o rest : p \in DataPages(k), rest \in rests} : k \in 1..n}
        \cup (IF gap THEN {<<e>> \o rest : e \in EndPages, rest \in whole} ELSE {})

Metadata ==
    [full_name |-> "", stargazers_count |-> 4, forks_count |-> 2,
     open_issues_count |-> 1, watchers_count |-> 4]

RepoResponses ==
    {Http(200, Metadata), Http(404, [message |-> "Not Found"]),
     Http(500, [message |-> "Server Error"]), NotJson(502), NotJson(200), NetErr}

\* The answers of an auxiliary endpoint whose 200 bodies are those of bodies:
\* the body, 202 (statistics still being computed), 404, a body that is not
\* JSON, no answer.
AuxResponses(bodies) ==
    {Http(200, b) : b \in bodies}
    \cup {Http(202, <<>>), Http(404, <<>>), NotJson(200), NetErr}

CommitBodies == {<<>>, <<[total |-> 2], [total |-> 3]>>}
ContributorBodies == {<<[login |-> "ann"], [login |-> "bob"]>>}
ReleaseBodies == {<<[tag_name |-> "v2"], [tag_name |-> "v1"]>>}
PullBodies == {<<[number |-> 7]>>}

GitHub(repo, stargazers, commits, contributors, releases, pulls) ==
    [repo |-> repo, stargazers |-> stargazers, commits |-> commits,
     contributors |-> contributors, releases |-> releases, pulls |-> pulls]

\* Every listing, the other endpoints answering 200.
ListingWorlds ==
    {GitHub(Http(200, Metadata), l,
            Http(200, <<[total |-> 2], [total |-> 3]>>),
            Http(200, <<[login |-> "ann"], [login |-> "bob"]>>),
            Http(200, <<[tag_name |-> "v2"], [tag_name |-> "v1"]>>),
            Http(200, <<[number |-> 7]>>)) : l \in Listings(MaxStars, TRUE)}

\* Every combination of the other endpoints' answers, over three listings.
EndpointWorlds ==
    {GitHub(r, l, c, k, e, p) :
        r \in RepoResponses,
        l \in {<<>>, <<Http(200, <<[starred_at |-> 5], [starred_at |-> 130]>>)>>,
               <<Http(403, <<>>)>>},
        c \in AuxResponses(CommitBodies),
        k \in AuxResponses(ContributorBodies),
        e \in AuxResponses(ReleaseBodies),
        p \in AuxResponses(PullBodies)}

(***************************************************************************)
(* One execution of fetch_github_stats_api.                                *)
(***************************************************************************)
Init ==
    /\ \/ github \in ListingWorlds
       \/ github \in EndpointWorlds
    /\ pypistats = NetErr
    /\ warehouse = [ok |-> FALSE, events |-> <<>>]
    /\ clock = 9 * SecondsPerDay + 3600
    /\ cache = <<>>
    /\ executions = <<>>
    /\ call = None
    /\ ncalls = 0
    /\ ret = None
    /\ h_pc = "idle"
    /\ package = ""
    /\ github_repo = ""
    /\ granularity = ""
    /\ lifetime_downloads = None
    /\ df_pypi = None
    /\ df_github = None
    /\ session_repo_data = None
    /\ rendered = FALSE
    /\ metrics = None
    /\ gh_pc = "repo"
    /\ repo_name = "owner/repo"
    /\ repo_data = None
    /\ stars_data = <<>>
    /\ page = 0
    /\ stars_response = None
    /\ commits_data = <<>>
    /\ contributors_data = <<>>
    /\ releases_data = <<>>
    /\ prs_data = <<>>
    /\ gh_result = None
    /\ errors = <<>>
    /\ requests = <<>>

Next == GitHubStep

Spec == Init /\ [][Next]_vars

(***************************************************************************)
(* Properties of one execution of fetch_github_stats_api.                  *)
(***************************************************************************)
\* The execution has returned a pair that is not the absent one.
Returned == gh_pc = "done" /\ gh_result.repo_data.some
History == gh_result.repo_data.v.stars_history

\* The calendar day an hour falls in.
EventDay(t) == CHOOSE d \in 0..t : d * HoursPerDay <= t /\ t < (d + 1) * HoursPerDay
EventDays == {EventDay(stars_data[j].starred_at) : j \in DOMAIN stars_data}
EventsOn(d) == {j \in DOMAIN stars_data : EventDay(stars_data[j].starred_at) = d}

\* C1: for a non-empty collection of consumed star events, stars_history has
\* exactly one record per calendar day from the earliest to the latest event
\* day, in ascending order without gaps, each holding the number of events
\* of its day, which is 0 for a day without events.
C1_DenseDailySeries ==
    (Returned /\ stars_data # <<>>) =>
        LET lo == SetMin(EventDays)
            hi == SetMax(EventDays)
        IN  /\ Len(History) = hi - lo + 1
            /\ \A i \in DOMAIN History :
                /\ History[i].date = lo + (i - 1)
                /\ History[i].stars = Cardinality(EventsOn(History[i].date))
                /\ EventsOn(History[i].date) = {} => History[i].stars = 0

\* Events on days 0 and 5 only: 6 records, 4 of them zero.
C1_Witness ==
    /\ Returned
    /\ EventDays = {0, 5}
    /\ Len(History) = 6
    /\ Cardinality({i \in DOMAIN History : History[i].stars = 0}) = 4

\* C2: cumulative_stars of record i is the sum of new stars of records 1..i
\* in date order, and never decreases along the series.
C2_CumulativeIsRunningSum ==
    Returned =>
        \A i \in DOMAIN History :
            /\ History[i].cumulative_stars = SumSeq([j \in 1..i |-> History[j].stars])
            /\ i > 1 => History[i].cumulative_stars >= History[i - 1].cumulative_stars

C2_Witness ==
    /\ Returned
    /\ \E i \in DOMAIN History :
        /\ i > 1
        /\ History[i].stars = 0
        /\ History[i].cumulative_stars = 2
        /\ History[Len(History)].cumulative_stars = 3

\* C3: star_change of the first record is its new stars; of every later
\* record it is its new stars minus those of the record before.
C3_StarChangeIsFirstDifference ==
    Returned =>
        \A i \in DOMAIN History :
            History[i].star_change =
                IF i = 1 THEN History[1].stars
                ELSE History[i].stars - History[i - 1].stars

C3_Witness ==
    /\ Returned
    /\ Len(History) > 1
    /\ History[1].star_change = 2
    /\ \E i \in DOMAIN History : History[i].star_change < 0

\* A page of stars, and a page the loop is to stop at.
IsDataPage(r) == r.kind = "http" /\ r.status = 200 /\ r.json /\ r.val # <<>>
IsEndPage(r) == r.kind = "http" /\ (r.status # 200 \/ (r.json /\ r.val = <<>>))

\* The first page of the listing that is not a page of stars.
EndIndex ==
    CHOOSE k \in 1..(Len(github.stargazers) + 1) :
        /\ ~IsDataPage(StargazersResponse(k))
        /\ \A j \in 1..(k - 1) : IsDataPage(StargazersResponse(j))

StarRequests == SelectSeq(requests, LAMBDA q : q.endpoint = "stargazers")
LoopLeft ==
    \/ gh_pc \in {"commits", "contributors", "releases", "pulls"}
    \/ gh_pc = "done" /\ StarRequests # <<>>

\* C4: when pages 1..k-1 are 200 and non-empty and page k is empty or not
\* 200, the loop requests pages 1..k, each once and in order, never a page
\* past k, and leaves with exactly the items of pages 1..k-1.
C4_PaginationStopsAtFirstEndPage ==
    IsEndPage(StargazersResponse(EndIndex)) =>
        /\ Len(StarRequests) <= EndIndex
        /\ \A i \in DOMAIN StarRequests : StarRequests[i].page = i
        /\ LoopLeft =>
            /\ Len(StarRequests) = EndIndex
            /\ stars_data =
                Concat([j \in 1..(EndIndex - 1) |-> StargazersResponse(j).val])

\* A full first page, an empty second one.
C4_Witness ==
    /\ gh_pc = "commits"
    /\ Len(github.stargazers) = 1
    /\ Len(github.stargazers[1].val) = MaxStars
    /\ StarRequests = <<Request("stargazers", 1), Request("stargazers", 2)>>
    /\ Len(stars_data) = MaxStars

AbsentPair == [raised |-> FALSE, df |-> None, repo_data |-> None]

\* C5: when the repository-metadata call answers with a status other than
\* 200, the function returns the absent pair without raising, and the
\* metadata request is the only request it has made.
C5_MetadataFailureReturnsAbsentPair ==
    (github.repo.kind = "http" /\ github.repo.status # 200 /\ gh_pc # "repo") =>
        /\ gh_pc = "done"
        /\ gh_result = AbsentPair
        /\ requests = <<Request("repo", 0)>>

C5_Witness ==
    /\ gh_pc = "done"
    /\ github.repo.kind = "http"
    /\ github.repo.status = 500
    /\ gh_result = AbsentPair

\* An answer whose handling raises: no answer, or a 200 that is not JSON.
Raises(r) == r.kind = "neterr" \/ (r.status = 200 /\ ~r.json)
AuxAnswers == <<github.commits, github.contributors, github.releases, github.pulls>>

\* Every call answers with a status, and every 200 parses.
NothingRaises ==
    /\ ~Raises(github.repo)
    /\ IsEndPage(StargazersResponse(EndIndex))
    /\ \A i \in 1..4 : ~Raises(AuxAnswers[i])

\* What a sub-resource is to hold for an answer.
Degraded(r) == IF r.status = 200 THEN r.val ELSE <<>>

\* C6: when the metadata call succeeds and every other call answers with a
\* status, whichever of the four auxiliary calls are not 200, the function
\* returns a pair that is not absent, in which each failed sub-resource is
\* empty with a derived total of 0 and each 200 holds its answer's data.
C6_AuxiliaryFailureDegradesItsField ==
    (gh_pc = "done" /\ github.repo.status = 200 /\ NothingRaises) =>
        /\ gh_result.df.some
        /\ gh_result.repo_data.some
        /\ ~gh_result.raised
        /\ LET snap == gh_result.repo_data.v IN
            /\ snap.commits_data = Degraded(github.commits)
            /\ snap.contributors_data = Degraded(github.contributors)
            /\ snap.releases_data = Degraded(github.releases)
            /\ snap.prs_data = Degraded(github.pulls)
            /\ github.commits.status # 200 => snap.total_commits = 0
            /\ github.contributors.status # 200 => snap.total_contributors = 0
            /\ github.releases.status # 200 => snap.total_releases = 0

C6_Witness ==
    /\ Returned
    /\ NothingRaises
    /\ github.commits.status = 202
    /\ github.contributors.status = 200
    /\ github.releases.status = 404
    /\ github.pulls.status = 200
    /\ gh_result.repo_data.v.contributors_data # <<>>
    /\ gh_result.repo_data.v.releases_data = <<>>

\* The answer a request of the execution got.
AnswerTo(q) ==
    CASE q.endpoint = "repo" -> github.repo
      [] q.endpoint = "stargazers" -> StargazersResponse(q.page)
      [] q.endpoint = "commit_activity" -> github.commits
      [] q.endpoint = "contributors" -> github.contributors
      [] q.endpoint = "releases" -> github.releases
      [] q.endpoint = "pulls" -> github.pulls

RepoCallFailed == github.repo.kind = "neterr" \/ github.repo.status # 200

Packages == {"crewai", "requests"}
Repositories == {"crewAIInc/crewAI", "psf/requests"}

\* The moments at which something is called: the start, half an hour, an
\* hour, a day, and a day and an hour later.
Start == 9 * SecondsPerDay
Instants == {Start + d : d \in {0, 1800, 3600, 86400, 90000}}

\* Downloads of day 8 (two in one hour) and of day 9, in minutes.
DownloadEvents ==
    <<[project |-> "crewai", timestamp |-> 8 * MinutesPerDay + 605],
      [project |-> "crewai", timestamp |-> 8 * MinutesPerDay + 650],
      [project |-> "crewai", timestamp |-> 9 * MinutesPerDay + 30],
      [project |-> "requests", timestamp |-> 9 * MinutesPerDay + 45]>>

Warehouses == {[ok |-> o, events |-> DownloadEvents] : o \in BOOLEAN}

\* The answers of the overall endpoint: two totals, a body without 'data',
\* a 404 and a 503, a 200 that is not JSON, no answer.
PypistatsAnswers ==
    {Http(200, [data |-> <<[downloads |-> 3], [downloads |-> 4]>>]),
     Http(200, [data |-> <<[downloads |-> 9]>>]),
     Http(200, [message |-> "no data"]),
     Http(404, [message |-> "Not Found"]),
     NotJson(503), NotJson(200), NetErr}

\* A repository with one page of stars and every endpoint answering; the
\* same without its releases; a repository that is not found.
SmallGitHub(r, e) ==
    GitHub(r, <<Http(200, <<[starred_at |-> 5], [starred_at |-> 30]>>)>>,
           Http(200, <<[total |-> 2], [total |-> 3]>>),
           Http(200, <<[login |-> "ann"]>>),
           e,
           Http(200, <<[number |-> 7]>>))

SmallGitHubWorlds ==
    {SmallGitHub(r, e) :
        r \in {Http(200, Metadata), Http(404, [message |-> "Not Found"])},
        e \in {Http(200, <<[tag_name |-> "v1"]>>), Http(404, <<>>)}}

Idle == h_pc \in {"idle", "done"} /\ gh_pc = "idle"

\* Time passes between two calls.
Tick ==
    /\ Idle
    /\ clock' \in {t \in Instants : t > clock}
    /\ UNCHANGED <<github, pypistats, warehouse, cacheVars, handlerVars, ghVars,
                   errors, requests>>

\* One of the services changes its answer.
UpstreamChanges(overall, warehouses, worlds) ==
    /\ Idle
    /\ \/ pypistats' \in overall \ {pypistats} /\ UNCHANGED <<warehouse, github>>
       \/ warehouse' \in warehouses \ {warehouse} /\ UNCHANGED <<pypistats, github>>
       \/ github' \in worlds \ {github} /\ UNCHANGED <<pypistats, warehouse>>
    /\ UNCHANGED <<clock, cacheVars, handlerVars, ghVars, errors, requests>>

InitIdle ==
    /\ clock = Start
    /\ cache = <<>>
    /\ executions = <<>>
    /\ call = None
    /\ ncalls = 0
    /\ ret = None
    /\ h_pc = "idle"
    /\ package = ""
    /\ github_repo = ""
    /\ granularity = ""
    /\ lifetime_downloads = None
    /\ df_pypi = None
    /\ df_github = None
    /\ session_repo_data = None
    /\ rendered = FALSE
    /\ metrics = None
    /\ gh_pc = "idle"
    /\ repo_name = ""
    /\ repo_data = None
    /\ stars_data = <<>>
    /\ page = 0
    /\ stars_response = None
    /\ commits_data = <<>>
    /\ contributors_data = <<>>
    /\ releases_data = <<>>
    /\ prs_data = <<>>
    /\ gh_result = None
    /\ errors = <<>>
    /\ requests = <<>>

InitHandler ==
    /\ github \in SmallGitHubWorlds
    /\ pypistats \in PypistatsAnswers
    /\ warehouse \in Warehouses
    /\ InitIdle

NextHandler ==
    \/ Click({"crewai"}, {"crewAIInc/crewAI"}, {"daily"})
    \/ HandlerLifetime
    \/ HandlerPypi
    \/ HandlerGitHub
    \/ GitHubStep
    \/ HandlerGitHubReturns
    \/ Tick
    \/ UpstreamChanges(PypistatsAnswers, Warehouses, SmallGitHubWorlds)

SpecHandler == InitHandler /\ [][NextHandler]_vars

(***************************************************************************)
(* The cached functions called by any caller, with any of a few argument   *)
(* tuples, while time passes and the services change their answers.        *)
(***************************************************************************)
\* An argument tuple of fetch_pypi_stats, and the four tuples that differ
\* from it in one component.
PypiTuples ==
    {<<"crewai", 2, 9, "daily">>, <<"requests", 2, 9, "daily">>,
     <<"crewai", 3, 9, "daily">>, <<"crewai", 2, 8, "daily">>,
     <<"crewai", 2, 9, "weekly">>}

\* The services at three moments: every one answering; every one answering
\* something else; every one failing (a body without 'data', the warehouse
\* down, the repository not found).
CacheWorlds ==
    {[pypistats |-> Http(200, [data |-> <<[downloads |-> 3], [downloads |-> 4]>>]),
      warehouse |-> [ok |-> TRUE, events |-> DownloadEvents],
      github |-> SmallGitHub(Http(200, Metadata), Http(200, <<[tag_name |-> "v1"]>>))],
     [pypistats |-> Http(200, [data |-> <<[downloads |-> 9]>>]),
      warehouse |-> [ok |-> TRUE, events |-> SubSeq(DownloadEvents, 1, 2)],
      github |-> SmallGitHub(Http(200, Metadata), Http(404, <<>>))],
     [pypistats |-> Http(200, [message |-> "no data"]),
      warehouse |-> [ok |-> FALSE, events |-> DownloadEvents],
      github |-> SmallGitHub(Http(404, [message |-> "Not Found"]), Http(404, <<>>))]}

World == [pypistats |-> pypistats, warehouse |-> warehouse, github |-> github]

\* The services change their answers together.
WorldChanges(worlds) ==
    /\ Idle
    /\ \E w \in worlds \ {World} :
        /\ pypistats' = w.pypistats
        /\ warehouse' = w.warehouse
        /\ github' = w.github
    /\ UNCHANGED <<clock, cacheVars, handlerVars, ghVars, errors, requests>>

InitCache ==
    /\ \E w \in CacheWorlds :
        /\ pypistats = w.pypistats
        /\ warehouse = w.warehouse
        /\ github = w.github
    /\ InitIdle

NextCache ==
    \/ ncalls < MaxCalls /\ CallLifetimeDownloads(Packages)
    \/ ncalls < MaxCalls /\ CallPypiStats(PypiTuples)
    \/ ncalls < MaxCalls /\ CallGitHubStats(Repositories)
    \/ GitHubStep
    \/ GitHubStatsReturns
    \/ Tick
    \/ WorldChanges(CacheWorlds)

SpecCache == InitCache /\ [][NextCache]_vars

(***************************************************************************)
(* The metrics section of the handler over any download series and any     *)
(* star history: the handler at the return of fetch_github_stats_api, with *)
(* the frame of fetch_pypi_stats in hand.                                  *)
(***************************************************************************)
\* Day 20, one o'clock.
MetricsNow == 20 * SecondsPerDay + 3600

\* The frame of a series of counts, one row a day.
DownloadFrame(counts) == [i \in DOMAIN counts |-> [date |-> i, downloads |-> counts[i]]]

\* Every series of up to 3 counts of 10, 15 and 20, and every longer one of
\* up to MaxRecords counts of 1 and 8 (a bucket without downloads has no row).
DownloadSeries ==
    {DownloadFrame(c) : c \in UNION {[1..n -> {10, 15, 20}] : n \in 0..3}}
    \cup {DownloadFrame(c) : c \in UNION {[1..n -> {1, 8}] : n \in 4..MaxRecords}}

\* Stars of days 5, 6, 12, 13, 14 and 20: 15, 14, 8, 7, 6 and 0 days ago.
MetricsStars ==
    {[starred_at |-> d * HoursPerDay + 7] : d \in {5, 6, 12, 13, 14, 20}}
StarLists == UNION {[1..n -> MetricsStars] : n \in 0..MaxStars}

EightWeeks == [i \in 1..8 |-> [total |-> i]]

\* The handler of file (Home.py, app.py) after its first two fetches gave 7
\* and the frame pypi, at the return of a body that found the stars of stars
\* and the commit weeks of weeks.
InitMetrics(pypi, stars, weeks) ==
    LET listing == IF stars = <<>> THEN <<>> ELSE <<Http(200, stars)>>
        contributors == <<[login |-> "ann"]>>
        releases == <<[tag_name |-> "v1"]>>
        pulls == <<[number |-> 7]>>
        meta == [Metadata EXCEPT !.full_name = "crewAIInc/crewAI"]
        lifetime == Call("fetch_lifetime_downloads", <<"crewai">>)
        series == Call("fetch_pypi_stats", <<"crewai", 13, 20, "daily">>)
    IN  /\ github = GitHub(Http(200, Metadata), listing, Http(200, weeks),
                           Http(200, contributors), Http(200, releases), Http(200, pulls))
        /\ pypistats = Http(200, [data |-> <<[downloads |-> 3], [downloads |-> 4]>>])
        /\ warehouse = [ok |-> FALSE, events |-> <<>>]
        /\ clock = MetricsNow
        /\ cache = (CacheKey(lifetime.fn, lifetime.args) :> [value |-> 7, stored_at |-> MetricsNow])
                   @@ (CacheKey(series.fn, series.args) :> [value |-> pypi, stored_at |-> MetricsNow])
        /\ executions = (lifetime :> [at |-> MetricsNow, raised |-> FALSE, value |-> 7])
                        @@ (series :> [at |-> MetricsNow, raised |-> FALSE, value |-> pypi])
        /\ call = Call("fetch_github_stats_api", <<"crewAIInc/crewAI">>)
        /\ ncalls = 3
        /\ ret = [call |-> series, executed |-> TRUE, raised |-> FALSE, value |-> pypi]
        /\ h_pc \in {"in_github", "app_in_github"}
        /\ package = "crewai"
        /\ github_repo = "crewAIInc/crewAI"
        /\ granularity = "daily"
        /\ lifetime_downloads = 7
        /\ df_pypi = Some(pypi)
        /\ df_github = None
        /\ session_repo_data = None
        /\ rendered = FALSE
        /\ metrics = None
        /\ gh_pc = "done"
        /\ repo_name = "crewAIInc/crewAI"
        /\ repo_data = BuildSnapshot(meta, stars, weeks, contributors, releases, pulls)
        /\ stars_data = stars
        /\ page = Len(listing) + 1
        /\ stars_response = Http(200, <<>>)
        /\ commits_data = weeks
        /\ contributors_data = contributors
        /\ releases_data = releases
        /\ prs_data = pulls
        /\ gh_result = [raised |-> FALSE,
                        df |-> Some(BuildFrame(meta, weeks)),
                        repo_data |-> Some(repo_data)]
        /\ errors = <<>>
        /\ requests = <<Request("overall", 0),
                     QueryRequest(BuildQuery("crewai", 13, 20, "daily")),
                     Request("repo", 0)>>
                      \o [p \in 1..(Len(listing) + 1) |-> Request("stargazers", p)]
                      \o <<Request("commit_activity", 0), Request("contributors", 0),
                           Request("releases", 0), Request("pulls", 0)>>

\* Every series with one star history, every star history with one series,
\* and both with no commit week, with 6 and with 7 of them.
InitAnyMetrics ==
    \/ \E pypi \in DownloadSeries :
        InitMetrics(pypi, <<[starred_at |-> 13 * HoursPerDay + 7],
                            [starred_at |-> 20 * HoursPerDay + 7]>>, EightWeeks)
    \/ \E stars \in StarLists :
        InitMetrics(DownloadFrame(<<10, 20, 15>>), stars, EightWeeks)
    \/ \E n \in {0, 6, 7} :
        InitMetrics(DownloadFrame(<<10, 20, 15>>),
                    <<[starred_at |-> 13 * HoursPerDay + 7],
                      [starred_at |-> 20 * HoursPerDay + 7]>>,
                    SubSeq(EightWeeks, 1, n))

NextMetrics ==
    \/ HandlerGitHubReturns
    \/ AppHandlerGitHubReturns

SpecMetrics == InitAnyMetrics /\ [][NextMetrics]_vars

(***************************************************************************)
(* fetch_pypi_stats of utils.py and of app.py called with any granularity. *)
(***************************************************************************)
\* The four granularities of the sidebar, and two values that are none of
\* them.
Granularities == {"hourly", "daily", "weekly", "monthly"}
OtherGranularities == {"yearly", "Daily"}

\* Days 2 to 9, and days 2 to 40.
QueryTuples ==
    {<<"crewai", 2, e, g>> : e \in {9, 40}, g \in Granularities \cup OtherGranularities}

\* The downloads of DownloadEvents and two of the second month, on days 35
\* and 36 of one week.
QueryEvents ==
    DownloadEvents
    \o <<[project |-> "crewai", timestamp |-> 35 * MinutesPerDay + 100],
         [project |-> "crewai", timestamp |-> 36 * MinutesPerDay + 7]>>

InitQuery ==
    /\ github \in SmallGitHubWorlds
    /\ pypistats = NetErr
    /\ warehouse \in {[ok |-> TRUE, events |-> DownloadEvents],
                      [ok |-> TRUE, events |-> QueryEvents]}
    /\ InitIdle

NextQuery ==
    \/ ncalls < MaxCalls /\ CallPypiStats(QueryTuples)
    \/ ncalls < MaxCalls /\ CallAppPypiStats(QueryTuples)

SpecQuery == InitQuery /\ [][NextQuery]_vars

(***************************************************************************)
(* fetch_lifetime_downloads and fetch_github_stats_api called by any       *)
(* caller against every answer of their endpoints.                         *)
(***************************************************************************)
InitRequests ==
    /\ \/ github \in ListingWorlds /\ pypistats = NetErr
       \/ github \in EndpointWorlds /\ pypistats = NotJson(503)
       \/ /\ github = SmallGitHub(Http(200, Metadata), Http(200, <<[tag_name |-> "v1"]>>))
          /\ pypistats \in PypistatsAnswers
    /\ warehouse = [ok |-> FALSE, events |-> <<>>]
    /\ InitIdle

NextRequests ==
    \/ ncalls < MaxCalls /\ CallLifetimeDownloads({"crewai"})
    \/ ncalls < MaxCalls /\ CallGitHubStats({"crewAIInc/crewAI"})
    \/ GitHubStep
    \/ GitHubStatsReturns

SpecRequests == InitRequests /\ [][NextRequests]_vars

(***************************************************************************)
(* The cached functions called while the services fail and recover.        *)
(***************************************************************************)
\* The services failing (the overall endpoint out of service, the warehouse
\* down, the repository not found), failing otherwise (no answer from the
\* overall endpoint, none for the pull requests), and answering.
FailureWorlds ==
    {[pypistats |-> NotJson(503),
      warehouse |-> [ok |-> FALSE, events |-> DownloadEvents],
      github |-> SmallGitHub(Http(404, [message |-> "Not Found"]), Http(404, <<>>))],
     [pypistats |-> NetErr,
      warehouse |-> [ok |-> FALSE, events |-> DownloadEvents],
      github |-> [SmallGitHub(Http(200, Metadata), Http(200, <<[tag_name |-> "v1"]>>))
                    EXCEPT !.pulls = NetErr]],
     [pypistats |-> Http(200, [data |-> <<[downloads |-> 3], [downloads |-> 4]>>]),
      warehouse |-> [ok |-> TRUE, events |-> DownloadEvents],
      github |-> SmallGitHub(Http(200, Metadata), Http(200, <<[tag_name |-> "v1"]>>))]}

InitFailures ==
    /\ \E w \in FailureWorlds :
        /\ pypistats = w.pypistats
        /\ warehouse = w.warehouse
        /\ github = w.github
    /\ InitIdle

NextFailures ==
    \/ ncalls < MaxCalls /\ CallLifetimeDownloads({"crewai"})
    \/ ncalls < MaxCalls /\ CallPypiStats({<<"crewai", 2, 9, "daily">>})
    \/ ncalls < MaxCalls /\ CallGitHubStats({"crewAIInc/crewAI"})
    \/ GitHubStep
    \/ GitHubStatsReturns
    \/ Tick
    \/ WorldChanges(FailureWorlds)

SpecFailures == InitFailures /\ [][NextFailures]_vars

(***************************************************************************)
(* Properties of fetch_lifetime_downloads under the handler.               *)
(***************************************************************************)
\* The step is a call of fn that ran the body.
Executes(fn) == ncalls' = ncalls + 1 /\ call'.fn = fn /\ ret'.executed

\* The overall endpoint answers 2xx with a JSON body that has a data list.
OverallSucceeds ==
    /\ pypistats.kind = "http"
    /\ pypistats.status \in 200..299
    /\ pypistats.json
    /\ "data" \in DOMAIN pypistats.val

\* It answers with a status outside 2xx, or not at all.
OverallFails == pypistats.kind = "neterr" \/ pypistats.status \notin 200..299

RECURSIVE DownloadsOf(_)
DownloadsOf(rows) ==
    IF rows = <<>> THEN 0 ELSE rows[1].downloads + DownloadsOf(Tail(rows))

\* C8: an execution of fetch_lifetime_downloads returns the sum of the
\* downloads of the rows of the data list when the endpoint succeeds, and
\* returns 0 without raising when it answers with a status outside 2xx or
\* not at all; the handler then has 0 for the lifetime total and goes on to
\* the download-count fetch.
C8_LifetimeFailureDefaultsToZero ==
    [][Executes("fetch_lifetime_downloads") =>
        /\ OverallSucceeds =>
            /\ ~ret'.raised
            /\ ret'.value = DownloadsOf(pypistats.val.data)
        /\ OverallFails =>
            /\ ~ret'.raised
            /\ ret'.value = 0
            /\ lifetime_downloads' = 0
            /\ h_pc' = "pypi"
            /\ errors' = <<"fetch_lifetime_downloads">>]_vars

\* The endpoint is down, and the action has gone through the download-count
\* query and the repository fetch with a lifetime total of 0.
C8_Witness ==
    /\ h_pc = "done"
    /\ OverallFails
    /\ ncalls = 3
    /\ executions[Call("fetch_lifetime_downloads", <<package>>)].at = clock
    /\ lifetime_downloads = 0
    /\ df_pypi # None
    /\ session_repo_data # None
    /\ rendered
    /\ \E i \in DOMAIN requests : requests[i].endpoint = "pulls"

(***************************************************************************)
(* Properties of the cache under any caller.                               *)
(***************************************************************************)
\* The expiry windows in seconds: a day, and an hour for repository stats.
ExpiryOf(fn) == IF fn = "fetch_github_stats_api" THEN 3600 ELSE 86400

\* A step that is a call, and what it does with the body.
IsCall == ncalls' = ncalls + 1
BodyRuns ==
    IF call'.fn = "fetch_github_stats_api" THEN gh_pc' = "repo"
    ELSE ret'.call = call' /\ ret'.executed
ReturnsStored ==
    /\ gh_pc' = "idle"
    /\ ret'.call = call'
    /\ ~ret'.executed
    /\ ~ret'.raised
    /\ ret'.value = executions[call'].value
    /\ executions' = executions
    /\ requests' = requests

\* The body ran for the same function and arguments within the window.
RanWithinWindow(c) ==
    c \in DOMAIN executions /\ clock - executions[c].at < ExpiryOf(c.fn)

\* The original statement of C9: a call with the function and the full
\* argument tuple of a run of the body less than a window ago does not run the
\* body again and returns that run's result, whatever that run ended in; a call
\* whose argument tuple never ran the body runs it.
C9_IdenticalCallsExecuteOnce ==
    [][IsCall =>
        /\ RanWithinWindow(call') => ReturnsStored
        /\ call' \notin DOMAIN executions => BodyRuns]_vars

\* C9: for each of the three functions, a call with the function and the full
\* argument tuple of a run of the body that returned a value less than a
\* window ago does not run the body again, makes no request and returns that
\* run's value; a call whose argument tuple differs in any component from
\* every tuple that ran the body runs the body, and leaves the entries of the
\* other tuples as they are.
C9_IdenticalCallsExecuteOnceAfterAReturn ==
    [][IsCall =>
        /\ (RanWithinWindow(call') /\ ~executions[call'].raised) => ReturnsStored
        /\ call' \notin DOMAIN executions =>
            /\ BodyRuns
            /\ \A k \in DOMAIN cache : k \in DOMAIN cache' /\ cache'[k] = cache[k]]_vars

\* The second call of fetch_pypi_stats with the same four arguments, half an
\* hour or more after the first, returns the first call's rows although the
\* warehouse is down by now, and the query went out once.
C9_Witness ==
    /\ ncalls = 2
    /\ gh_pc = "idle"
    /\ ret.call = call
    /\ call.fn = "fetch_pypi_stats"
    /\ ~ret.executed
    /\ executions[call].at < clock
    /\ ret.value = executions[call].value
    /\ ret.value # <<>>
    /\ ~warehouse.ok
    /\ Len(requests) = 1

\* C10: a call with the function and arguments of a run of the body that is a
\* window or more old (24 hours, 1 hour for repository stats) runs the body
\* again, and one that is younger and returned a value does not; the value a
\* run returns is stored with the time of the run in place of the entry of
\* its key, so the last run that returned is what the entry holds.
C10_ExpiredEntryIsReplaced ==
    [][/\ IsCall =>
            /\ (call' \in DOMAIN executions
                    /\ clock - executions[call'].at >= ExpiryOf(call'.fn)) => BodyRuns
            /\ (RanWithinWindow(call') /\ ~executions[call'].raised) => ~BodyRuns
       /\ (executions' # executions /\ ~executions'[call'].raised) =>
            LET k == CacheKey(call'.fn, call'.args) IN
                /\ k \in DOMAIN cache'
                /\ cache'[k] = [value |-> executions'[call'].value, stored_at |-> clock']
                /\ ret'.value = cache'[k].value]_vars

\* The repository stats of one repository fetched at the start and, an hour
\* later, fetched again against a repository that has lost its releases: the
\* entry holds the second snapshot and the time of the second run.
C10_Witness ==
    /\ ncalls = 2
    /\ gh_pc = "idle"
    /\ ret.call = call
    /\ call.fn = "fetch_github_stats_api"
    /\ ret.executed
    /\ clock = Start + 3600
    /\ Len(SelectSeq(requests, LAMBDA q : q.endpoint = "repo")) = 2
    /\ cache[CacheKey(call.fn, call.args)].stored_at = clock
    /\ cache[CacheKey(call.fn, call.args)].value = ret.value
    /\ ret.value.repo_data.some
    /\ ret.value.repo_data.v.releases_data = <<>>

(***************************************************************************)
(* Properties of a warehouse failure under the handler.                    *)
(***************************************************************************)
\* C11: when the query of fetch_pypi_stats fails during a Fetch Stats action,
\* one error message is shown and the handler goes on to the repository-stats
\* fetch.
C11_WarehouseFailureAbortsOnlyDownloads ==
    [][(Executes("fetch_pypi_stats") /\ ret'.raised) =>
        /\ Len(errors') = Len(errors) + 1
        /\ h_pc' = "github"]_vars

\* The handler has ended on the failed query: one message, a lifetime total,
\* and neither a repository request nor a snapshot in the session.
C11_Witness ==
    /\ h_pc = "done"
    /\ ~warehouse.ok
    /\ ncalls = 2
    /\ call.fn = "fetch_pypi_stats"
    /\ ret.executed
    /\ ret.raised
    /\ errors = <<"Fetch Stats">>
    /\ lifetime_downloads = 7
    /\ session_repo_data = None
    /\ ~rendered
    /\ \A i \in DOMAIN requests : requests[i].endpoint \in {"overall", "warehouse"}

(***************************************************************************)
(* Properties of the metrics section.                                      *)
(***************************************************************************)
\* The handler of Home.py, of app.py, has shown its metrics.
HomeShown == h_pc = "done" /\ rendered
AppShown == h_pc = "app_done" /\ rendered

Series == df_pypi.v
Counts == [i \in DOMAIN Series |-> Series[i].downloads]
Shown == metrics.v.downloads

\* A number that is defined and 0; one that is the fraction num/den.
IsZero(x) == ~x.nan /\ x.num = 0
IsFraction(x, num, den) == ~x.nan /\ x.num * den = num * x.den

\* The sum of the counts at the places lo..hi.
CountsFrom(lo, hi) == SumSeq(SubSeq(Counts, lo, hi))
Least(a, b) == IF a <= b THEN a ELSE b

\* C12: for an empty download series every derived average and peak and the
\* changes derived from them are 0, and no error is shown.
C12_EmptySeriesGivesZeros ==
    (HomeShown /\ Series = <<>>) =>
        /\ IsZero(Shown.avg_downloads)
        /\ IsZero(Shown.avg_last_week)
        /\ IsZero(Shown.avg_previous_week)
        /\ IsZero(Shown.avg_change)
        /\ IsZero(Shown.max_downloads)
        /\ IsZero(Shown.previous_peak)
        /\ IsZero(Shown.peak_change)
        /\ errors = <<>>

\* The metrics of an empty series are shown: the weekly average and the peak
\* are NaN and their texts are 'nan'.
C12_Witness ==
    /\ HomeShown
    /\ Series = <<>>
    /\ Shown.avg_last_week.nan
    /\ Shown.avg_change.nan
    /\ Shown.max_downloads.nan
    /\ metrics.v.shown.avg_last_week.text = "nan"
    /\ metrics.v.shown.max_downloads.text = "nan"
    /\ errors = <<>>

\* C13: for a series of n >= 1 records the weekly average is the mean of the
\* last min(n, 7) records: their sum over their number, which is n and not 7
\* when n < 7.
C13_WeeklyAverageOverAvailableRecords ==
    (HomeShown /\ Series # <<>>) =>
        LET n == Len(Series)
            k == Least(n, 7)
        IN  IsFraction(Shown.avg_last_week, CountsFrom(n - k + 1, n), k)

\* The series 10, 20, 15: the weekly average is 45/3.
C13_Witness ==
    /\ HomeShown
    /\ Counts = <<10, 20, 15>>
    /\ Shown.avg_last_week = [nan |-> FALSE, num |-> 45, den |-> 3]

\* C14: in the handler of Home.py and in that of app.py, the previous weekly
\* average is the mean of the 7 records before the last 7 when the series has
\* 14 records or more and 0 when it has fewer, and the weekly average change
\* is the weekly average less the previous one.
C14_PreviousWeeklyAverage ==
    (HomeShown \/ AppShown) =>
        LET n == Len(Series) IN
        /\ n >= 14 => IsFraction(Shown.avg_previous_week, CountsFrom(n - 13, n - 7), 7)
        /\ n < 14 => IsZero(Shown.avg_previous_week)
        /\ Shown.avg_change = Minus(Shown.avg_last_week, Shown.avg_previous_week)

\* app.py's handler over the series 10, 20, 15: its previous weekly average is
\* the mean 45/3 of the same three records, and its change 0.
C14_Witness ==
    /\ AppShown
    /\ Counts = <<10, 20, 15>>
    /\ Shown.avg_previous_week = [nan |-> FALSE, num |-> 45, den |-> 3]
    /\ IsZero(Shown.avg_change)

\* The greatest of the counts at the places lo..hi.
GreatestCount(lo, hi) == SetMax({Counts[i] : i \in lo..hi})

\* C15: the peak is the greatest count of the series, the previous peak the
\* greatest count of all records but the last and 0 when there is at most one
\* record, and the peak change the last count less the previous peak, below 0
\* when the last count is below the previous peak.
C15_PeakAndPeakChange ==
    HomeShown =>
        LET n == Len(Series)
            latest == IF n = 0 THEN 0 ELSE Counts[n]
            previousPeak == IF n <= 1 THEN 0 ELSE GreatestCount(1, n - 1)
        IN  /\ n >= 1 => Shown.max_downloads = Number(GreatestCount(1, n))
            /\ Shown.previous_peak = Number(previousPeak)
            /\ Shown.peak_change = Number(latest - previousPeak)
            /\ latest < previousPeak => Shown.peak_change.num < 0

\* The series 10, 20, 15: peak 20, previous peak 20, peak change -5.
C15_Witness ==
    /\ HomeShown
    /\ Counts = <<10, 20, 15>>
    /\ Shown.max_downloads = Number(20)
    /\ Shown.previous_peak = Number(20)
    /\ Shown.peak_change = Number(-5)
    /\ metrics.v.shown.peak_change.digits = -5

\* C16: latest is the last record's count and 0 for an empty series, previous
\* the second-to-last record's count and 0 for fewer than 2 records, and the
\* daily change latest less previous, which is latest for a single record.
C16_LatestPreviousDailyChange ==
    HomeShown =>
        LET n == Len(Series) IN
        /\ Shown.today = (IF n = 0 THEN 0 ELSE Counts[n])
        /\ Shown.yesterday = (IF n < 2 THEN 0 ELSE Counts[n - 1])
        /\ Shown.daily_change = Shown.today - Shown.yesterday
        /\ n = 1 => Shown.daily_change = Counts[1]

\* The single record 15: latest 15, previous 0, daily change 15.
C16_Witness ==
    /\ HomeShown
    /\ Counts = <<15>>
    /\ Shown.today = 15
    /\ Shown.yesterday = 0
    /\ Shown.daily_change = 15

StarHistory == session_repo_data.v.stars_history
StarsShown == metrics.v.stars

\* The stars of the days lo..hi.
StarsOfDays(lo, hi) ==
    SumSeq([i \in DOMAIN StarHistory |->
        IF lo <= StarHistory[i].date /\ StarHistory[i].date <= hi
        THEN StarHistory[i].stars ELSE 0])

\* C17: the stars of this week are those of exactly 7 calendar days up to the
\* current date (ending today, or ending yesterday), those of the previous
\* week those of the 7 days right before them, and the change their
\* difference.
C17_StarWeeksAreSevenDays ==
    HomeShown =>
        /\ \E last \in {Today - 1, Today} :
            /\ StarsShown.last_week_stars = StarsOfDays(last - 6, last)
            /\ StarsShown.previous_week_stars = StarsOfDays(last - 13, last - 7)
        /\ StarsShown.week_stars_change =
                StarsShown.last_week_stars - StarsShown.previous_week_stars

\* A star today and a star 7 days ago, 8 calendar days apart, are both among
\* the stars of this week.
C17_Witness ==
    /\ HomeShown
    /\ StarsOfDays(Today, Today) = 1
    /\ StarsOfDays(Today - 7, Today - 7) = 1
    /\ Len(StarHistory) = 8
    /\ StarsShown.last_week_stars = 2
    /\ StarsShown.previous_week_stars = 0

\* C18: for a star history that is not empty, the peak day is the date of a
\* record whose stars are the greatest of the history, and the earliest of
\* the dates of such records.
C18_PeakStarsDayIsEarliestMaximum ==
    (HomeShown /\ StarHistory # <<>>) =>
        /\ StarsShown.peak_stars_date.some
        /\ \E i \in DOMAIN StarHistory :
            /\ StarHistory[i].date = StarsShown.peak_stars_date.v
            /\ \A j \in DOMAIN StarHistory :
                /\ StarHistory[j].stars <= StarHistory[i].stars
                /\ StarHistory[j].stars = StarHistory[i].stars =>
                        StarHistory[i].date <= StarHistory[j].date
        /\ \E i \in DOMAIN StarHistory : StarsShown.peak_stars_day = Number(StarHistory[i].stars)

\* The greatest count, 1, on day 6 and again on day 13: the peak day is 6.
C18_Witness ==
    /\ HomeShown
    /\ Len(StarHistory) = 8
    /\ StarHistory[1].stars = 1
    /\ StarHistory[1].date = 6
    /\ StarHistory[8].stars = 1
    /\ StarsShown.peak_stars_date = Some(6)
    /\ StarsShown.peak_stars_day = Number(1)

(***************************************************************************)
(* Properties of the query of fetch_pypi_stats.                            *)
(***************************************************************************)
\* A step in which the body of fetch_pypi_stats, of utils.py or of app.py,
\* runs; the query it sends and the granularity it was called with.
RunsQuery(fns) == IsCall /\ call'.fn \in fns /\ ret'.call = call' /\ ret'.executed
SentQuery == requests'[Len(requests')].query
Asked == call'.args[4]

\* C19: fetch_pypi_stats, that of utils.py and that of app.py, sends for each
\* of hourly, daily, weekly and monthly an expression that it sends for no
\* other of them, and for any other granularity the query of daily, with the
\* rows of daily.
C19_UnknownGranularityIsDaily ==
    [][RunsQuery({"fetch_pypi_stats", "app.fetch_pypi_stats"}) =>
        /\ Asked \in Granularities =>
            \A other \in Granularities \ {Asked} :
                SentQuery.select_time # TimeExpressions(other)[2]
        /\ Asked \notin Granularities =>
            /\ SentQuery.select_time = "DATE(timestamp)"
            /\ SentQuery = BuildQuery(call'.args[1], call'.args[2], call'.args[3], "daily")
            /\ ~ret'.raised => ret'.value = RunQuery(SentQuery, warehouse.events)]_vars

\* app.py's fetch_pypi_stats called with 'yearly' has sent the query of
\* monthly and returned one row for each of the two months.
C19_Witness ==
    /\ ncalls = 1
    /\ call = Call("app.fetch_pypi_stats", <<"crewai", 2, 40, "yearly">>)
    /\ ret.executed
    /\ requests[1].query.select_time = "DATE_TRUNC(DATE(timestamp), MONTH)"
    /\ ret.value = <<[date |-> 0, downloads |-> 3], [date |-> 31, downloads |-> 2]>>

\* The bucket of a granularity that a displayed date falls in: the hour of a
\* minute, the day itself, the Sunday of a day, the first of the month of a
\* day.
BucketOf(gran, date) ==
    CASE gran = "hourly" -> date - (date % MinutesPerHour)
      [] gran = "daily" -> date
      [] gran = "weekly" -> date - (date % DaysPerWeek)
      [] gran = "monthly" -> SetMax({m \in MonthStarts : m <= date})

\* C20: for each of the four granularities the query of fetch_pypi_stats
\* groups by the expression it displays, and each returned row is one bucket
\* of the granularity: its date is the start of a bucket and no other row is
\* of the same bucket.
C20_RowsAreTruncatedBuckets ==
    [][(RunsQuery({"fetch_pypi_stats"}) /\ Asked \in Granularities /\ ~ret'.raised) =>
        LET rows == ret'.value IN
        /\ Resolve(SentQuery, SentQuery.group_by) = SentQuery.select_time
        /\ \A i \in DOMAIN rows : BucketOf(Asked, rows[i].date) = rows[i].date
        /\ \A i, j \in DOMAIN rows :
            BucketOf(Asked, rows[i].date) = BucketOf(Asked, rows[j].date) => i = j]_vars

\* fetch_pypi_stats called with 'hourly' has returned two rows of one
\* download each for the two downloads of one hour of day 8, at minutes 5 and
\* 50 of hour 10.
C20_Witness ==
    /\ ncalls = 1
    /\ call = Call("fetch_pypi_stats", <<"crewai", 2, 9, "hourly">>)
    /\ ret.executed
    /\ requests[1].query.select_time = "DATETIME(timestamp)"
    /\ Len(ret.value) = 3
    /\ ret.value[1] = [date |-> 8 * MinutesPerDay + 605, downloads |-> 1]
    /\ ret.value[2] = [date |-> 8 * MinutesPerDay + 650, downloads |-> 1]

(***************************************************************************)
(* Properties of the requests of one Fetch Stats action.                   *)
(***************************************************************************)
\* The place of an endpoint in the chain of the action as Home.py 63-69 and
\* utils.py 96-143 run it, and in the chain with the warehouse query first.
PlaceInChain(endpoint) ==
    CASE endpoint = "overall" -> 1
      [] endpoint = "warehouse" -> 2
      [] endpoint = "repo" -> 3
      [] endpoint = "stargazers" -> 4
      [] endpoint = "commit_activity" -> 5
      [] endpoint = "contributors" -> 6
      [] endpoint = "releases" -> 7
      [] endpoint = "pulls" -> 8

PlaceWarehouseFirst(endpoint) ==
    CASE endpoint = "warehouse" -> 1
      [] endpoint = "overall" -> 2
      [] OTHER -> PlaceInChain(endpoint)

\* Each request of the action is of a later place than the one before it, or
\* both are stargazer pages and the later one has the greater page number.
InOrder(place(_)) ==
    \A i \in 1..(Len(requests) - 1) :
        LET a == requests[i]
            b == requests[i + 1]
        IN  \/ place(a.endpoint) < place(b.endpoint)
            \/ /\ a.endpoint = "stargazers"
               /\ b.endpoint = "stargazers"
               /\ a.page < b.page

\* The handler stands still while the body of fetch_github_stats_api makes
\* its requests.
HandlerWaits == gh_pc # "idle" => h_pc = "in_github"

\* The original statement of C21: the requests of one Fetch Stats action go
\* out one after the other in the order warehouse query, lifetime-download
\* call, repository metadata, stargazer pages in increasing page number,
\* commit activity, contributors, releases, pull requests.
C21_WarehouseQueryFirst == InOrder(PlaceWarehouseFirst) /\ HandlerWaits

\* C21: the requests of one Fetch Stats action go out one after the other in
\* the order lifetime-download call, warehouse query, repository metadata,
\* stargazer pages in increasing page number, commit activity, contributors,
\* releases, pull requests; the handler does not go on while the body of
\* fetch_github_stats_api is making its requests.
C21_LifetimeCallFirst == InOrder(PlaceInChain) /\ HandlerWaits

\* An action that found nothing stored has made its nine requests.
C21_Witness ==
    /\ h_pc = "done"
    /\ [i \in DOMAIN requests |-> requests[i].endpoint] =
            <<"overall", "warehouse", "repo", "stargazers", "stargazers",
              "commit_activity", "contributors", "releases", "pulls">>
    /\ requests[4].page = 1
    /\ requests[5].page = 2

(***************************************************************************)
(* Properties of a stargazer page that fails after pages of stars.         *)
(***************************************************************************)
\* The stars of the pages before the first page that is not a page of stars.
StarsBeforeEnd == Concat([j \in 1..(EndIndex - 1) |-> StargazersResponse(j).val])

\* What fetch_github_stats_api returns for a repository whose stargazers are
\* those of stars, the other endpoints answering as they do.
ResultFor(stars) ==
    LET meta == RepoResponse(repo_name).val
        commits == Degraded(github.commits)
    IN  [raised |-> FALSE,
         df |-> Some(BuildFrame(meta, commits)),
         repo_data |-> Some(BuildSnapshot(meta, stars, commits,
                                          Degraded(github.contributors),
                                          Degraded(github.releases),
                                          Degraded(github.pulls)))]

\* Page k > 1 answers with a status other than 200 after k - 1 pages of stars.
LaterPageFails ==
    /\ EndIndex > 1
    /\ StargazersResponse(EndIndex).kind = "http"
    /\ StargazersResponse(EndIndex).status # 200

\* C22: when stargazer page k > 1 answers with a status other than 200 after
\* pages 1..k-1 gave stars, and no other call raises, the function keeps the
\* stars of pages 1..k-1, asks for no page past k, shows no error, and returns
\* the pair it returns for a repository whose listing ends after those stars:
\* a star history built from them alone.
C22_FailedPageTruncatesSilently ==
    (gh_pc = "done" /\ ~RepoCallFailed /\ NothingRaises /\ EndIndex > 1) =>
        /\ stars_data = StarsBeforeEnd
        /\ Len(StarRequests) = EndIndex
        /\ errors = <<>>
        /\ gh_result = ResultFor(StarsBeforeEnd)
        /\ History = StarsHistory(StarsBeforeEnd)
        /\ SumSeq([i \in DOMAIN History |-> History[i].stars]) = Len(StarsBeforeEnd)

\* One star on page 1, page 2 refused, another star on page 3: the pair is
\* there, its history is that of one star, and no error was shown.
C22_Witness ==
    /\ gh_pc = "done"
    /\ LaterPageFails
    /\ EndIndex = 2
    /\ github.stargazers[2].status = 403
    /\ Len(github.stargazers) = 3
    /\ IsDataPage(github.stargazers[3])
    /\ Returned
    /\ errors = <<>>
    /\ Len(History) = 1
    /\ History[1].cumulative_stars = 1
    /\ StarRequests = <<Request("stargazers", 1), Request("stargazers", 2)>>

(***************************************************************************)
(* Properties of the requests of one execution.                            *)
(***************************************************************************)
\* A step of the body of fetch_github_stats_api, and the requests of the
\* step.
InGitHubBody == gh_pc \notin {"idle", "done"}
NewRequests == SubSeq(requests', Len(requests) + 1, Len(requests'))

\* The requests made so far to the endpoints of api.github.com.
GitHubRequests == SelectSeq(requests, LAMBDA q : q.endpoint # "overall")

\* C23: a step of the body of fetch_github_stats_api makes one request,
\* whatever the answer, and it is a request the execution has not made
\* before: of an endpoint not yet asked, or of a stargazer page not yet
\* asked; an execution of fetch_lifetime_downloads makes exactly one request,
\* whatever the answer.
C23_NoRequestIsRepeated ==
    [][/\ (InGitHubBody /\ requests' # requests) =>
            /\ Len(NewRequests) = 1
            /\ \A i \in DOMAIN GitHubRequests : GitHubRequests[i] # NewRequests[1]
       /\ Executes("fetch_lifetime_downloads") =>
            NewRequests = <<Request("overall", 0)>>]_vars

\* The statistics still being computed (202), the contributors not found, a
\* page of stars refused and the overall endpoint out of service: each was
\* asked once.
C23_Witness ==
    /\ gh_pc = "idle"
    /\ ncalls = 2
    /\ github.commits = Http(202, <<>>)
    /\ github.contributors = Http(404, <<>>)
    /\ github.stargazers = <<Http(403, <<>>)>>
    /\ pypistats = NotJson(503)
    /\ call.fn = "fetch_github_stats_api"
    /\ ret.call = call
    /\ ret.value.repo_data.some
    /\ Len(requests) = 7
    /\ \A e \in {"overall", "repo", "stargazers", "commit_activity", "contributors",
                  "releases", "pulls"} :
            Len(SelectSeq(requests, LAMBDA q : q.endpoint = e)) = 1

(***************************************************************************)
(* Properties of the cache when a fetch fails.                             *)
(***************************************************************************)
\* The last run of the body for the call c returned the value its function
\* returns on a failure: 0, the absent pair.
ReturnedFailure(c) ==
    /\ c \in DOMAIN executions
    /\ ~executions[c].raised
    /\ \/ c.fn = "fetch_lifetime_downloads" /\ executions[c].value = 0
       \/ /\ c.fn = "fetch_github_stats_api"
          /\ executions[c].value = [df |-> None, repo_data |-> None]

\* The services answer by now.
Recovered ==
    /\ OverallSucceeds
    /\ warehouse.ok
    /\ github.repo = Http(200, Metadata)
    /\ github.pulls.kind = "http"

\* C24: after a run of fetch_lifetime_downloads returned 0, or one of
\* fetch_github_stats_api the absent pair, a call with the same arguments less
\* than the window later (24 hours, 1 hour) returns that value again without
\* running the body and without a request, whatever the services answer by
\* then; a run that raises stores nothing, and the next call with its
\* arguments runs the body again.
C24_FailuresAreMemoized ==
    [][IsCall =>
        /\ (ReturnedFailure(call') /\ RanWithinWindow(call')) =>
            /\ ReturnsStored
            /\ ReturnedFailure(call')
            /\ cache' = cache
        /\ (call' \in DOMAIN executions /\ executions[call'].raised) => BodyRuns
        /\ (call'.fn # "fetch_github_stats_api" /\ ret'.executed /\ ret'.raised) =>
            cache' = cache]_vars

\* The overall endpoint was out of service at the first call of
\* fetch_lifetime_downloads and answers at the second, an hour or more later:
\* the second call returned 0 again and sent nothing.
C24_Witness ==
    /\ ncalls = 2
    /\ gh_pc = "idle"
    /\ call.fn = "fetch_lifetime_downloads"
    /\ ret.call = call
    /\ ~ret.executed
    /\ ret.value = 0
    /\ Recovered
    /\ clock - executions[call].at >= 3600
    /\ requests = <<Request("overall", 0)>>

(***************************************************************************)
(* Properties of the weekly change of stars and forks.                     *)
(***************************************************************************)
\* The frame and the snapshot the handler got from fetch_github_stats_api.
Frame == df_github.v
Snapshot == session_repo_data.v

\* C25: whenever the handler shows its metrics, the weekly change of the
\* total stars and that of the forks are 0: every row of the frame holds the
\* snapshot's stargazers_count and forks_count, so the count minus the value
\* 7 rows back is 0 for any star history and any number of rows.
C25_WeeklyChangeIsZero ==
    HomeShown =>
        /\ \A i \in DOMAIN Frame :
            /\ Frame[i].stars = Snapshot.stargazers_count
            /\ Frame[i].forks = Snapshot.forks_count
        /\ metrics.v.stars_change = 0
        /\ metrics.v.forks_change = 0

\* A frame of 8 weeks and a snapshot of 4 stars of which the history has 3,
\* two of them in the last week: the changes shown are 0.
C25_Witness ==
    /\ HomeShown
    /\ Len(Frame) = 8
    /\ Snapshot.stargazers_count = 4
    /\ Len(stars_data) = 3
    /\ metrics.v.stars.last_week_stars = 2
    /\ metrics.v.stars_change = 0
    /\ metrics.v.forks_change = 0

(***************************************************************************)
(* Properties of the snapshot held by the session.                         *)
(***************************************************************************)
\* The step in which the handler gets the pair of fetch_github_stats_api, and
\* the step in which it ends on an exception of one of the first two fetches.
RepositoryFetchReturns == h_pc \in {"github", "in_github"} /\ h_pc' = "done"
EarlierFetchRaises == h_pc \in {"lifetime", "pypi"} /\ h_pc' = "done"

\* C26: the step in which an action's repository fetch returns puts the
\* returned snapshot in the session, None when the fetch failed, and the
\* release section then shows no releases whatever the session held before;
\* an action that ends on an exception of the lifetime-download or the
\* download-count fetch, and every other step, leaves the session's snapshot
\* as it was.
C26_SessionHoldsLastReturnedSnapshot ==
    [][/\ RepositoryFetchReturns =>
            /\ ret'.call = Call("fetch_github_stats_api", <<github_repo>>)
            /\ session_repo_data' = ret'.value.repo_data
            /\ ret'.value.repo_data = None =>
                    ~ReleaseSection(session_repo_data').found
            /\ ret'.value.repo_data # None =>
                    ReleaseSection(session_repo_data').releases =
                        ret'.value.repo_data.v.releases_data
       /\ EarlierFetchRaises =>
            /\ ret'.raised
            /\ session_repo_data' = session_repo_data
       /\ ~RepositoryFetchReturns => session_repo_data' = session_repo_data]_vars

\* An action has ended on the failed warehouse query, and the session still
\* holds the snapshot and the release of an earlier action.
C26_Witness ==
    /\ h_pc = "done"
    /\ call.fn = "fetch_pypi_stats"
    /\ ret.raised
    /\ errors = <<"Fetch Stats">>
    /\ session_repo_data # None
    /\ ReleaseSection(session_repo_data).found
    /\ \A i \in DOMAIN requests : requests[i].endpoint # "repo"

====
